---- MODULE Spec2Model ----
(***************************************************************************)
(* A model of the tweet scraper of src/scrape.py: the two per-backend      *)
(* extractors (_extract_tweet_data, _extract_nitter_tweet_data), the       *)
(* backend selection and pagination of TweetScraper.scrape_tweets, and     *)
(* main's save of the result.                                              *)
(*                                                                         *)
(* Python strings are modelled as what the code does with them:            *)
(*   - a URL is the sequence of its "/"-separated segments;                *)
(*   - a count text is a token [kind, val]: "num" is a string of ASCII     *)
(*     digits with value val, "word" any text str.isdigit() rejects        *)
(*     (including ""), "super" a text isdigit() accepts and int()          *)
(*     rejects (a superscript digit);                                      *)
(*   - a media URI is [kind, base, path, profile]: "abs" an absolute URI,  *)
(*     "rel" one starting with "/", "none" a missing or empty src.         *)
(* None is the empty sequence <<>> and a returned dict d is <<d>>.         *)
(***************************************************************************)
EXTENDS Naturals, Sequences, FiniteSets

VARIABLES
    \* ---- one run of main(): TweetScraper.scrape_tweets, then save_tweets
    pc,             \* position of the run
    max_tweets,     \* self.max_tweets; 0 stands for None (both are falsy)
    creds,          \* bool(self.email and self.password)
    cookies_loaded, \* the local cookies_loaded of scrape_tweets
    feed,           \* the kinds of the posts the pages have shown so far, in page order
    tweets,         \* the local list tweets of the backend attempt in progress
    scroll_count,   \* the local scroll_count of the origin loop
    last_height,    \* the local last_height of the origin loop
    settled,        \* the page height no longer changes after the last reading
    stillCycles,    \* cycles that read the height of a page that had stopped changing
    shown,          \* how many nodes the first enumeration of the result's page returned
    protectedPage,  \* the origin page loaded shows 'These posts are protected'
    attempts,       \* the backends attempted, in order
    mirrorCount,    \* how many records the mirror attempt collected
    profileOpened,  \* driver.get(self.profile_url) was called
    loginCalls,     \* how often self.login() was invoked
    reason,         \* what the log names as the cause of the return ("none": nothing)
    result,         \* what scrape_tweets returned
    backend,        \* the backend whose loop produced result ("none" before)
    file,           \* the output file written by save_tweets (<<>>: none)
    live,           \* browser processes launched and not quit
    writes,         \* how often the output file was opened for writing
    fileState,      \* the output path: "none", "partial" or "complete"
    saveError,      \* the step of save_tweets that raised ("none": none)
    failedAt,       \* loginCalls when login() first returned False (0: never)
    \* ---- one application of an extractor to one node
    xpc,            \* "ready", or the extractor that has been applied
    xnode,          \* the DOM node handed to the extractor
    xrec,           \* what the extractor returned
    \* ---- one call of login(), or of load_cookies() at the start of scrape_tweets
    apc,            \* "ready", or where the call has led
    acreds,         \* bool(self.email and self.password)
    cookieFile,     \* x_cookies.json: "absent", "saved", "damaged", "partial", "written"
    lenv,           \* what login() met
    lres,           \* how login() ended
    cenv,           \* what load_cookies() met
    cres,           \* how load_cookies() ended
    \* ---- runs for different targets, started from one working directory
    kpc,            \* per target: where its run stands
    kjar,           \* per path: the content of the cookie file there
    kusers,         \* per path: the runs that have opened the file
    kread,          \* per target: what its load_cookies read
    \* ---- one call of run_scraper (tweedhat.py)
    wpc,            \* where the call stands
    wuser,          \* the username passed
    wfolder,        \* the files of TWEETS_FOLDER
    woutcome,       \* how the scrape.py child process went
    wexit,          \* its exit status
    wstdout,        \* its standard output, by lines
    wret,           \* the value run_scraper returned
    \* ---- the origin pagination loop of one scrape_tweets call
    lpc,            \* where the loop stands
    lcap,           \* self.max_tweets, 0 for None
    lfeed,          \* what the extraction of each post seen so far yields
    lseen,          \* how many nodes the last enumeration returned
    ltweets,        \* the local tweets
    lscroll,        \* the local scroll_count
    llast,          \* the local last_height
    lreadings,      \* what the height readings of the last cycle were
    lpasses,        \* per node: how often it was passed to the extractor
    lend,           \* why the loop ended
    \* ---- the JavaScript-disabled check of one origin attempt
    jpc,            \* where the check stands
    juser,          \* self.username
    jprofile,       \* self.use_profile
    jpage,          \* whether the loaded page shows the marker
    jdump,          \* the state of {username}_js_disabled.html
    jlive,          \* browsers launched and not quit
    jagent,         \* the user agent of self.driver
    jrestarts,      \* launches of a browser with the mobile user agent
    jret,           \* what the attempt returned, if it returned
    \* ---- one diagnostic capture and what follows it
    dpc,            \* whether the capture was made
    dsite,          \* which capture: mirror screenshot, login screenshot, page dump
    dmode,          \* how the capture went
    dinput,         \* what the browser shows at that site
    dout,           \* the outcome with the capture as it went
    dref,           \* the outcome of the same with the capture succeeding
    \* ---- the job queue of tweedhat-web: one job, its record on disk, the
    \* ---- route, the pending-jobs script and the worker tasks
    engine,         \* the class tasks.py binds to the name TwitterScraper
    disk,           \* the job file: <<>> before the first save, else <<the record saved last>>
    route,          \* position of the new_job request
    pending,        \* position of the run of process_pending_jobs
    pjob,           \* the Job object process_pending_jobs loaded
    task            \* each task message: its position and the Job object it loaded

runVars == <<pc, max_tweets, creds, cookies_loaded, feed, tweets, scroll_count,
             last_height, settled, stillCycles, shown, protectedPage, attempts,
             mirrorCount, profileOpened, loginCalls, reason, result, backend, file,
             live, writes, fileState, saveError, failedAt>>
xVars == <<xpc, xnode, xrec>>
aVars == <<apc, acreds, cookieFile, lenv, lres, cenv, cres>>
kVars == <<kpc, kjar, kusers, kread>>
wVars == <<wpc, wuser, wfolder, woutcome, wexit, wstdout, wret>>
lVars == <<lpc, lcap, lfeed, lseen, ltweets, lscroll, llast, lreadings, lpasses, lend>>
jVars == <<jpc, juser, jprofile, jpage, jdump, jlive, jagent, jrestarts, jret>>
dVars == <<dpc, dsite, dmode, dinput, dout, dref>>
qVars == <<engine, disk, route, pending, pjob, task>>
\* the variables no step of a run changes
offRun == <<xVars, aVars, kVars, wVars, lVars, jVars, dVars, qVars>>
\* the variables no extractor call changes
offExtract == <<runVars, aVars, kVars, wVars, lVars, jVars, dVars, qVars>>
\* the variables no call of login() or load_cookies() changes
offAuth == <<runVars, xVars, kVars, wVars, lVars, jVars, dVars, qVars>>
\* the variables the concurrent runs do not change
offShared == <<runVars, xVars, aVars, wVars, lVars, jVars, dVars, qVars>>
\* the variables a call of run_scraper does not change
offWrapper == <<runVars, xVars, aVars, kVars, lVars, jVars, dVars, qVars>>
\* the variables the origin pagination loop does not change
offLoop == <<runVars, xVars, aVars, kVars, wVars, jVars, dVars, qVars>>
\* the variables the JavaScript-disabled check does not change
offJs == <<runVars, xVars, aVars, kVars, wVars, lVars, dVars, qVars>>
\* the variables a diagnostic capture does not change
offCapture == <<runVars, xVars, aVars, kVars, wVars, lVars, jVars, qVars>>
\* the variables no step of the job queue changes
offJobs == <<runVars, xVars, aVars, kVars, wVars, lVars, jVars, dVars>>
vars == <<runVars, xVars, aVars, kVars, wVars, lVars, jVars, dVars, qVars>>

(***************************************************************************)
(* Bounds of the model.                                                    *)
(***************************************************************************)
\* largest max_tweets a run is started with
MaxCap == 1
\* most nodes one enumeration of the DOM returns
MaxNodes == 2
\* most cycles counted on a page whose height has stopped changing
MaxStill == 4
\* most lines of a nitter .tweet-stats text
MaxStatLines == 2
\* largest count shown in a stats text
MaxCount == 1

\* max_scrolls of the origin loop
max_scrolls == 30

None == <<>>
EmptyStr == <<>>

(***************************************************************************)
(* Strings.                                                                *)
(***************************************************************************)
Tok(k, v) == [kind |-> k, val |-> v]
\* str.isdigit()
isdigit(t) == t.kind \in {"num", "super"}
\* int(t) raises ValueError
IntRaises(t) == t.kind = "super"
\* the value int(t) returns when it does not raise
int(t) == t.val

Uri(k, b, p, prof) == [kind |-> k, base |-> b, path |-> p, profile |-> prof]
NoSrc == Uri("none", "", 0, FALSE)
\* src.startswith('/')
startswithSlash(u) == u.kind = "rel"
\* base_url = self.driver.current_url.split('/status')[0]; the current page is
\* the profile page, whose URL holds no '/status'
BaseUrl(current_url) == current_url
\* f"{base_url}{src}"
Absolute(current_url, u) == Uri("abs", BaseUrl(current_url), u.path, u.profile)
\* an entry of media_links: a plain URI, or "video_preview:" + URI
Plain(u) == [tag |-> FALSE, uri |-> u]
Tagged(u) == [tag |-> TRUE, uri |-> u]

NitterPage == "https://nitter.net/user"
XPage == "https://x.com/user"

\* the index of the first element of s equal to e, 0 if none
IndexOf(s, e) ==
    IF \E i \in 1..Len(s) : s[i] = e
    THEN CHOOSE i \in 1..Len(s) : s[i] = e /\ \A j \in 1..(i - 1) : s[j] # e
    ELSE 0
\* list.remove(e): the first occurrence only
ListRemove(s, e) ==
    LET i == IndexOf(s, e)
    IN IF i = 0 THEN s ELSE SubSeq(s, 1, i - 1) \o SubSeq(s, i + 1, Len(s))
InList(s, e) == \E i \in 1..Len(s) : s[i] = e

(***************************************************************************)
(* A DOM node of a post.  An element is [found, ...]: found is whether     *)
(* find_element finds it.                                                  *)
(***************************************************************************)
\* tweet_url.split("/status/")[1].split("?")[0]: the segments after the first
\* "status" segment, up to the next "status" or the query; <<>> stands for the
\* IndexError of a URL without "/status/"
StatusId(url) ==
    LET i == IndexOf(url, "status")
        rest == SubSeq(url, i + 1, Len(url))
        j == IndexOf(rest, "status")
        seg == IF j = 0 THEN rest ELSE SubSeq(rest, 1, j - 1)
        q == IndexOf(seg, "?")
    IN IF i = 0 THEN <<>>
       ELSE IF q = 0 THEN <<seg>> ELSE <<SubSeq(seg, 1, q - 1)>>
\* tweet_url.split("/")[-1]
LastSegment(url) == IF Len(url) = 0 THEN <<"">> ELSE <<url[Len(url)]>>

Zeros == [replies |-> 0, retweets |-> 0, likes |-> 0]

\* int(text) if text.isdigit() else 0, with ValueError handled by the
\* caller's except clause, which stores 0
OriginCount(el) ==
    IF ~el.found THEN 0
    ELSE IF isdigit(el.tok) /\ ~IntRaises(el.tok) THEN int(el.tok) ELSE 0

(***************************************************************************)
(* Media of a node.                                                        *)
(***************************************************************************)
\* for media in media_elements: src = media.get_attribute("src");
\* if src and "profile" not in src and src not in media_links: append(src)
RECURSIVE OriginImages(_, _)
OriginImages(imgs, media_links) ==
    IF imgs = <<>> THEN media_links
    ELSE LET src == Head(imgs)
             keep == src.kind # "none" /\ ~src.profile
                     /\ ~InList(media_links, Plain(src))
         IN OriginImages(Tail(imgs),
                IF keep THEN Append(media_links, Plain(src)) ELSE media_links)

\* the same loop of the nitter extractor, which makes a "/"-src absolute
\* after the membership test and before the append
RECURSIVE NitterImages(_, _)
NitterImages(imgs, media_links) ==
    IF imgs = <<>> THEN media_links
    ELSE LET src == Head(imgs)
             keep == src.kind # "none" /\ ~src.profile
                     /\ ~InList(media_links, Plain(src))
             conv == IF startswithSlash(src) THEN Absolute(NitterPage, src) ELSE src
         IN NitterImages(Tail(imgs),
                IF keep THEN Append(media_links, Plain(conv)) ELSE media_links)

\* the nitter selectors tried in order until one finds elements:
\* .still-image, .attachment img, .media-image img, .tweet-body img:not(...)
RECURSIVE FirstNonEmpty(_)
FirstNonEmpty(lists) ==
    IF lists = <<>> THEN <<>>
    ELSE IF Head(lists) # <<>> THEN Head(lists) ELSE FirstNonEmpty(Tail(lists))

\* video_preview_url after the optional conversion to an absolute URI
PreviewUrl(current_url, src) ==
    IF startswithSlash(src) THEN Absolute(current_url, src) ELSE src

\* if video_preview_url: remove the untagged entry, append the tagged one
TagPreview(current_url, media_links, src) ==
    IF src.kind = "none" THEN media_links
    ELSE LET u == PreviewUrl(current_url, src)
         IN Append(IF InList(media_links, Plain(u))
                   THEN ListRemove(media_links, Plain(u)) ELSE media_links,
                   Tagged(u))

\* origin: video_elements[0].find_element("img"), NoSuchElementException ignored
OriginVideo(video, media_links) ==
    IF ~video.found \/ ~video.img.found THEN media_links
    ELSE TagPreview(XPage, media_links, video.img.src)

\* nitter: the img of the container, else its .poster, else nothing
NitterVideo(video, media_links) ==
    IF ~video.found THEN media_links
    ELSE IF video.img.found THEN TagPreview(NitterPage, media_links, video.img.src)
    ELSE IF video.poster.found THEN TagPreview(NitterPage, media_links, video.poster.src)
    ELSE media_links

\* the value left in video_preview_url (NoSrc stands for None and for "")
VideoPreviewUrl(current_url, video, withPoster) ==
    IF ~video.found THEN NoSrc
    ELSE IF video.img.found
         THEN IF video.img.src.kind = "none" THEN NoSrc
              ELSE PreviewUrl(current_url, video.img.src)
    ELSE IF withPoster /\ video.poster.found
         THEN IF video.poster.src.kind = "none" THEN NoSrc
              ELSE PreviewUrl(current_url, video.poster.src)
    ELSE NoSrc

(***************************************************************************)
(* Stats of a nitter node: stats = {} and one pass over the lines of the   *)
(* .tweet-stats text.  A line is [kw, first]: kw the keywords its          *)
(* lower-cased text contains, first its first whitespace-separated token   *)
(* (a line that contains a keyword has one).                               *)
(***************************************************************************)
EmptyDict == [k \in {} |-> 0]
DictSet(d, key, v) == [k \in (DOMAIN d) \cup {key} |-> IF k = key THEN v ELSE d[k]]

\* the key a line is stored under: the if / elif / elif chain; "" for none
StatKey(line) ==
    IF "repl" \in line.kw THEN "replies"
    ELSE IF "retweet" \in line.kw THEN "retweets"
    ELSE IF "like" \in line.kw THEN "likes"
    ELSE ""

\* <<stats>> after the loop, or <<>> when int() raised ValueError
RECURSIVE NitterStatLines(_, _)
NitterStatLines(lines, stats) ==
    IF lines = <<>> THEN <<stats>>
    ELSE LET line == Head(lines)
             key == StatKey(line)
         IN IF key = "" THEN NitterStatLines(Tail(lines), stats)
            ELSE IF isdigit(line.first) /\ IntRaises(line.first) THEN <<>>
            ELSE NitterStatLines(Tail(lines),
                    DictSet(stats, key,
                            IF isdigit(line.first) THEN int(line.first) ELSE 0))

NitterStats_NoDefault(el) ==
    IF ~el.found THEN EmptyDict
    ELSE LET r == NitterStatLines(el.lines, EmptyDict)
         IN IF r = <<>> THEN Zeros ELSE r[1]

\* except (NoSuchElementException, ValueError, IndexError): stats = zeros
NitterStats(el) ==
    IF ~el.found THEN Zeros
    ELSE LET r == NitterStatLines(el.lines, EmptyDict)
         IN IF r = <<>> THEN Zeros ELSE r[1]

\* stats = {} and the three guarded lookups of the origin extractor
OriginStats(n) ==
    [replies |-> OriginCount(n.reply),
     retweets |-> OriginCount(n.retweet),
     likes |-> OriginCount(n.like)]

(***************************************************************************)
(* The extractors.  A stale (detached) node raises on its first access, a  *)
(* link without href makes tweet_url None and tweet_url.split raise, a     *)
(* href without "/status/" raises IndexError: the outer except returns     *)
(* None.                                                                   *)
(***************************************************************************)
Unknown == <<"unknown">>

_extract_tweet_data(n) ==
    IF n.stale THEN None
    ELSE IF n.link.found /\ ~n.link.hasHref THEN None
    ELSE IF n.link.found /\ StatusId(n.link.href) = <<>> THEN None
    ELSE LET imgs == OriginImages(n.imgs, <<>>)
             media_links == OriginVideo(n.video, imgs)
             has_video == n.video.found
         IN <<[id |-> IF n.link.found THEN StatusId(n.link.href)[1] ELSE Unknown,
               url |-> IF n.link.found THEN n.link.href ELSE EmptyStr,
               text |-> IF n.text.found THEN n.text.text ELSE EmptyStr,
               timestamp |-> IF n.time.found THEN n.time.text ELSE EmptyStr,
               stats |-> OriginStats(n),
               media |-> media_links,
               has_video |-> has_video,
               has_media |-> (Len(media_links) > 0 \/ has_video),
               video_preview_url |-> VideoPreviewUrl(XPage, n.video, FALSE),
               source |-> "x.com"]>>

_extract_nitter_tweet_data(n) ==
    IF n.stale THEN None
    ELSE IF n.link.found /\ ~n.link.hasHref THEN None
    ELSE LET imgs == NitterImages(FirstNonEmpty(<<n.imgs>> \o n.alt), <<>>)
             media_links == NitterVideo(n.video, imgs)
             has_video == n.video.found
         IN <<[id |-> IF n.link.found THEN LastSegment(n.link.href) ELSE Unknown,
               url |-> IF n.link.found THEN n.link.href ELSE EmptyStr,
               text |-> IF n.text.found THEN n.text.text ELSE EmptyStr,
               timestamp |-> IF n.time.found THEN n.time.text ELSE EmptyStr,
               stats |-> NitterStats(n.stats),
               media |-> media_links,
               has_video |-> has_video,
               has_media |-> (Len(media_links) > 0 \/ has_video),
               video_preview_url |-> VideoPreviewUrl(NitterPage, n.video, TRUE),
               source |-> "nitter"]>>

(***************************************************************************)
(* The nodes the extractors are applied to.                                *)
(***************************************************************************)
IdStr(i) == <<"101", "102", "103", "104", "105", "106">>[i]

NoLink == [found |-> FALSE, hasHref |-> FALSE, href |-> <<>>]
NoHref == [found |-> TRUE, hasHref |-> FALSE, href |-> <<>>]
Href(url) == [found |-> TRUE, hasHref |-> TRUE, href |-> url]
XUrl(i) == <<"x.com", "user", "status", IdStr(i)>>
NitterUrl(i) == <<"nitter.net", "user", "status", IdStr(i)>>

NoText == [found |-> FALSE, text |-> EmptyStr]
Text(t) == [found |-> TRUE, text |-> t]

NoCount == [found |-> FALSE, tok |-> Tok("word", 0)]
Count(t) == [found |-> TRUE, tok |-> t]
Toks == {Tok("num", v) : v \in 0..MaxCount} \cup {Tok("word", 0), Tok("super", 0)}

NoStats == [found |-> FALSE, lines |-> <<>>]
StatsText(ls) == [found |-> TRUE, lines |-> ls]
Lines == [kw : {{}, {"repl"}, {"retweet"}, {"like"}, {"repl", "like"}}, first : Toks]

NoImg == [found |-> FALSE, src |-> NoSrc]
Img(u) == [found |-> TRUE, src |-> u]
NoVideo == [found |-> FALSE, img |-> NoImg, poster |-> NoImg]
Video(i, p) == [found |-> TRUE, img |-> i, poster |-> p]
NoAlt == <<<<>>, <<>>, <<>>>>

SeqsUpTo(S, n) == UNION {[1..k -> S] : k \in 0..n}

Node(link, text, time, reply, retweet, like, stats, imgs, alt, video) ==
    [stale |-> FALSE, link |-> link, text |-> text, time |-> time,
     reply |-> reply, retweet |-> retweet, like |-> like, stats |-> stats,
     imgs |-> imgs, alt |-> alt, video |-> video]

\* a node from which every optional element is missing
BareNode ==
    Node(NoLink, NoText, NoText, NoCount, NoCount, NoCount, NoStats, <<>>, NoAlt, NoVideo)
\* a detached node
StaleNode == [BareNode EXCEPT !.stale = TRUE]

FieldNodes ==
    {[BareNode EXCEPT !.link = l, !.text = t, !.time = d] :
        l \in {NoLink, NoHref, Href(XUrl(1)), Href(NitterUrl(1)), Href(<<"x.com", "user">>),
               Href(XUrl(1) \o <<"?", "s=20">>), Href(XUrl(1) \o <<"photo", "1">>)},
        t \in {NoText, Text(EmptyStr), Text(<<"hello">>)},
        d \in {NoText, Text(<<"2024-01-01">>)}}

Counts == {NoCount} \cup {Count(t) : t \in Toks}
OriginStatNodes ==
    {[BareNode EXCEPT !.reply = a, !.retweet = b, !.like = c] :
        a \in Counts, b \in Counts, c \in Counts}

NitterStatNodes ==
    {[BareNode EXCEPT !.stats = st] :
        st \in {NoStats} \cup {StatsText(ls) : ls \in SeqsUpTo(Lines, MaxStatLines)}}

Srcs == {Uri("abs", NitterPage, 1, FALSE), Uri("abs", XPage, 1, FALSE),
         Uri("rel", "", 1, FALSE), Uri("abs", XPage, 2, TRUE), NoSrc}
MediaNodes ==
    {[BareNode EXCEPT !.imgs = im, !.alt = al, !.video = v] :
        im \in SeqsUpTo(Srcs, 2),
        al \in {NoAlt, <<<<>>, <<Uri("rel", "", 2, FALSE)>>, <<>>>>},
        v \in {NoVideo, Video(NoImg, NoImg)}
              \cup {Video(Img(u), NoImg) : u \in Srcs}
              \cup {Video(NoImg, Img(u)) : u \in Srcs}}

ExtractNodes ==
    {StaleNode} \cup FieldNodes \cup OriginStatNodes \cup NitterStatNodes \cup MediaNodes

(***************************************************************************)
(* The extractor applied to one node.                                      *)
(***************************************************************************)
\* the target accounts of the concurrent runs
Targets == {"alice", "bob"}
\* the path login() and load_cookies() open: a fixed name, relative to the
\* working directory, whatever the target
CookiePath(t) == "x_cookies.json"
Paths == {CookiePath(t) : t \in Targets}

\* no concurrent runs
SharedIdle ==
    /\ kpc = [t \in Targets |-> "off"]
    /\ kjar = [q \in Paths |-> "absent"]
    /\ kusers = [q \in Paths |-> {}]
    /\ kread = [t \in Targets |-> "none"]

\* no call of run_scraper
WrapperIdle ==
    /\ wpc = "off" /\ wuser = "alice" /\ wfolder = {} /\ woutcome = "none"
    /\ wexit = 0 /\ wstdout = <<>> /\ wret = None

\* no pagination loop
LoopIdle ==
    /\ lpc = "off" /\ lcap = 0 /\ lfeed = <<>> /\ lseen = 0 /\ ltweets = <<>>
    /\ lscroll = 0 /\ llast = 0 /\ lreadings = "none"
    /\ lpasses = [i \in 1..MaxNodes |-> "never"] /\ lend = "none"

\* no JavaScript-disabled check
JsIdle ==
    /\ jpc = "off" /\ juser = "alice" /\ jprofile = FALSE /\ jpage = "clear"
    /\ jdump = "none" /\ jlive = 0 /\ jagent = "desktop" /\ jrestarts = 0
    /\ jret = "none"

\* no diagnostic capture
CaptureIdle ==
    /\ dpc = "off" /\ dsite = "none" /\ dmode = "ok" /\ dinput = <<>>
    /\ dout = <<>> /\ dref = <<>>

\* the task messages of the one job: scrape_tweets_task as enqueued by the
\* new_job route and by process_pending_jobs, and the generate_audio_task
\* each of the two enqueues
ScrapeTasks == {"s_route", "s_script"}
AudioTasks == {"a_route", "a_script"}
Tasks == ScrapeTasks \cup AudioTasks

\* a message not sent: no position in the queue, no Job object, no error
NoTask == [pc |-> "none", job |-> <<>>, error |-> "none", n |-> 0, i |-> 0]

\* class TweetScraper of scrape.py: the parameters of __init__ after self,
\* those without a default, and the public methods
TweetScraper ==
    [name |-> "scrape.TweetScraper",
     params |-> {"username", "headless", "max_tweets", "email", "password",
                 "use_profile", "profile_dir", "user_agent"},
     required |-> {"username"},
     methods |-> {"login", "load_cookies", "scrape_tweets", "save_tweets", "close"}]

\* no job queue
JobsIdle ==
    /\ engine = TweetScraper /\ disk = <<>> /\ route = "off" /\ pending = "off"
    /\ pjob = <<>> /\ task = [t \in Tasks |-> NoTask]

\* how a call ended: the value returned, whether an exception left it, and
\* what it did to x_cookies.json
Outcome(v, r, c) == [value |-> v, raised |-> r, cookie |-> c]

\* no call of login() or load_cookies() in progress
AuthIdle ==
    /\ apc = "off" /\ acreds = FALSE /\ cookieFile = "absent"
    /\ lenv = [raises |-> FALSE, form |-> "none", verify |-> FALSE,
               password |-> "none", home |-> FALSE, save |-> "ok"]
    /\ lres = Outcome(FALSE, FALSE, "untouched")
    /\ cenv = [unreadable |-> FALSE, get |-> FALSE, rejected |-> FALSE]
    /\ cres = Outcome(FALSE, FALSE, "untouched")

RunIdle ==
    /\ pc = "off" /\ max_tweets = 0 /\ creds = FALSE /\ cookies_loaded = FALSE
    /\ feed = <<>> /\ tweets = <<>> /\ scroll_count = 0 /\ last_height = 0
    /\ settled = FALSE /\ stillCycles = 0 /\ shown = 0 /\ protectedPage = FALSE
    /\ attempts = <<>> /\ mirrorCount = 0 /\ profileOpened = FALSE /\ loginCalls = 0
    /\ reason = "none" /\ result = <<>> /\ backend = "none" /\ file = <<>>
    /\ live = 0 /\ writes = 0 /\ fileState = "none" /\ saveError = "none"
    /\ failedAt = 0

ExtractInit ==
    /\ RunIdle
    /\ AuthIdle
    /\ SharedIdle
    /\ WrapperIdle
    /\ LoopIdle
    /\ JsIdle
    /\ CaptureIdle
    /\ JobsIdle
    /\ xpc = "ready" /\ xnode \in ExtractNodes /\ xrec = None

ExtractOrigin ==
    /\ xpc = "ready"
    /\ xrec' = _extract_tweet_data(xnode)
    /\ xpc' = "origin"
    /\ UNCHANGED <<xnode, offExtract>>

ExtractNitter ==
    /\ xpc = "ready"
    /\ xrec' = _extract_nitter_tweet_data(xnode)
    /\ xpc' = "nitter"
    /\ UNCHANGED <<xnode, offExtract>>

ExtractNext == ExtractOrigin \/ ExtractNitter

SpecExtract == ExtractInit /\ [][ExtractNext]_vars

StatKeys == {"replies", "retweets", "likes"}

\* C9: for either backend, a node from which every optional element is
\* missing yields a record, not None, with id "unknown", url "", text "",
\* stats all zero and an empty media list.
C9_BareNodeDefaults ==
    (xpc \in {"origin", "nitter"} /\ xnode = BareNode) =>
        /\ xrec # None
        /\ xrec[1].id = Unknown
        /\ xrec[1].url = EmptyStr
        /\ xrec[1].text = EmptyStr
        /\ xrec[1].stats = Zeros
        /\ xrec[1].media = <<>>

C9_Witness ==
    xpc = "nitter" /\ xnode = BareNode /\ xrec # None /\ xrec[1].id = Unknown

\* C10: every record either extractor returns has a stats map with exactly
\* the keys replies, retweets and likes, each a natural number.
C10_StatsComplete ==
    (xpc \in {"origin", "nitter"} /\ xrec # None) =>
        /\ DOMAIN xrec[1].stats = StatKeys
        /\ \A k \in StatKeys : xrec[1].stats[k] \in Nat

\* the image elements the extractor xpc reads from node n
ImageSrcs(b, n) == IF b = "nitter" THEN FirstNonEmpty(<<n.imgs>> \o n.alt) ELSE n.imgs
\* the src of the video preview element the extractor reads (NoSrc: none)
PreviewSrc(b, n) ==
    IF ~n.video.found THEN NoSrc
    ELSE IF n.video.img.found THEN n.video.img.src
    ELSE IF b = "nitter" /\ n.video.poster.found THEN n.video.poster.src
    ELSE NoSrc
\* the page the extractor b runs on
PageOf(b) == IF b = "nitter" THEN NitterPage ELSE XPage

\* the node's video preview src is also the src of one of its plain images
PosterAlsoImage ==
    /\ xpc \in {"origin", "nitter"} /\ xrec # None
    /\ PreviewSrc(xpc, xnode).kind # "none"
    /\ ~PreviewSrc(xpc, xnode).profile
    /\ InList(ImageSrcs(xpc, xnode), PreviewSrc(xpc, xnode))

\* C11: a URI found as a plain image and as the video preview has exactly one
\* entry in media, and that entry is the tagged one.
C11_PreviewTaggedOnce ==
    PosterAlsoImage =>
        LET u == PreviewUrl(PageOf(xpc), PreviewSrc(xpc, xnode))
            media == xrec[1].media
            hits == {i \in 1..Len(media) : PreviewUrl(PageOf(xpc), media[i].uri) = u}
        IN Cardinality(hits) = 1 /\ \A i \in hits : media[i].tag

\* the same, for a URI the page delivers in absolute form
C11_Witness ==
    /\ PosterAlsoImage
    /\ PreviewSrc(xpc, xnode).kind = "abs"
    /\ xrec[1].media = <<Tagged(PreviewSrc(xpc, xnode))>>

\* C30: the media list of an extracted record holds no two equal entries.
C30_MediaDistinct ==
    (xpc \in {"origin", "nitter"} /\ xrec # None) =>
        \A i \in 1..Len(xrec[1].media), j \in 1..Len(xrec[1].media) :
            xrec[1].media[i] = xrec[1].media[j] => i = j

\* two image elements carried the same absolute URI and media holds it once
C30_Witness ==
    /\ xpc \in {"origin", "nitter"} /\ xrec # None
    /\ Len(xnode.imgs) = 2 /\ xnode.imgs[1] = xnode.imgs[2]
    /\ xnode.imgs[1].kind = "abs" /\ ~xnode.imgs[1].profile
    /\ ~xnode.video.found
    /\ Len(xrec[1].media) = 1

\* C31: every entry of the media list of an extracted record, the tag set
\* aside, is an absolute URI.
C31_MediaAbsolute ==
    (xpc \in {"origin", "nitter"} /\ xrec # None) =>
        \A i \in 1..Len(xrec[1].media) : xrec[1].media[i].uri.kind = "abs"

\* the mirror delivered an image with an origin-relative src and media holds
\* its absolute form
C31_Witness ==
    /\ xpc = "nitter" /\ xrec # None
    /\ Len(xnode.imgs) = 1 /\ startswithSlash(xnode.imgs[1])
    /\ ~xnode.video.found
    /\ xrec[1].media = <<Plain(Absolute(NitterPage, xnode.imgs[1]))>>

(***************************************************************************)
(* TweetScraper.login.  e is what the browser and the file system do at    *)
(* each step; the result is [value, raised, cookie]: the boolean returned, *)
(* whether an exception leaves the function, and what became of            *)
(* x_cookies.json ("untouched", "partial": opened for writing and not      *)
(* completed, "written").                                                  *)
(***************************************************************************)
LoginEnvs ==
    [raises : BOOLEAN,              \* a driver call or debug-file write before the home wait raises
     form : {"primary", "alt", "none"},     \* which wait finds the identifier input
     verify : BOOLEAN,              \* 'Verify your identity' appears
     password : {"primary", "alt", "none"}, \* which lookup finds the password input
     home : BOOLEAN,                \* div[data-testid='primaryColumn'] appears
     save : {"ok", "get_cookies", "open", "dump"}]  \* the step of the cookie save that raises

\* the flow reaches the authenticated-home marker
ReachedHome(hasCreds, e) ==
    /\ hasCreds /\ ~e.raises /\ e.form # "none" /\ ~e.verify
    /\ e.password # "none" /\ e.home

\* the try block of login, after the credentials check
login_try(e) ==
    IF e.raises THEN Outcome(FALSE, TRUE, "untouched")
    ELSE IF e.form = "none" THEN Outcome(FALSE, FALSE, "untouched")
    ELSE IF e.verify THEN Outcome(FALSE, FALSE, "untouched")
    ELSE IF e.password = "none" THEN Outcome(FALSE, FALSE, "untouched")
    ELSE IF ~e.home THEN Outcome(FALSE, FALSE, "untouched")
    ELSE IF e.save \in {"get_cookies", "open"} THEN Outcome(FALSE, TRUE, "untouched")
    ELSE IF e.save = "dump" THEN Outcome(FALSE, TRUE, "partial")
    ELSE Outcome(TRUE, FALSE, "written")

\* except Exception as e: log, return False
login_except_None(r) == r
login_except(r) == IF r.raised THEN Outcome(FALSE, FALSE, r.cookie) ELSE r

login_call(hasCreds, e) ==
    IF ~hasCreds THEN Outcome(FALSE, FALSE, "untouched")
    ELSE login_except(login_try(e))

\* the boolean login() returns
login(hasCreds, e) == login_call(hasCreds, e).value

\* 'Verify your identity' found: the flow returns False at once
VerifyStops_Never(verify) == FALSE
VerifyStops(verify) == verify

\* what login() does, in order, when no call raises; confirm says that the
\* wait for the username-confirmation field finds one
LoginPath(e, confirm) ==
    <<"get_login_page">> \o
    (IF e.form = "none" THEN <<"return_false">>
     ELSE <<"type_identifier", "submit_identifier", "check_verify">> \o
     (IF VerifyStops(e.verify) THEN <<"verify_detected", "return_false">>
      ELSE (IF e.verify THEN <<"verify_detected">> ELSE <<>>) \o
      (IF confirm THEN <<"type_username", "submit_username">> ELSE <<>>) \o
      (IF e.password = "none" THEN <<"return_false">>
       ELSE <<"type_password", "submit_password", "check_home">> \o
       (IF ~e.home THEN <<"return_false">>
        ELSE IF e.save # "ok" THEN <<"home_found", "raised", "return_false">>
        ELSE <<"home_found", "save_cookies", "return_true">>))))

\* the same when self.email or self.password is missing, and when a call
\* raises after the first k steps
LoginEvents(hasCreds, e, confirm, k) ==
    IF ~hasCreds THEN <<"return_false">>
    ELSE IF e.raises
    THEN SubSeq(LoginPath(e, confirm), 1, k) \o <<"raised", "return_false">>
    ELSE LoginPath(e, confirm)

\* the steps before which a call can raise
RaisePoints(e, confirm) ==
    {k \in 0..(Len(LoginPath(e, confirm)) - 1) :
        LoginPath(e, confirm)[k + 1] \notin {"return_false", "return_true",
                                              "verify_detected", "home_found",
                                              "raised"}}

\* the state of the flow an event belongs to
LoginStage(ev) ==
    CASE ev \in {"get_login_page", "type_identifier", "submit_identifier"} -> 1
      [] ev \in {"check_verify", "verify_detected"} -> 2
      [] ev \in {"type_username", "submit_username"} -> 3
      [] ev = "type_password" -> 4
      [] ev \in {"submit_password", "check_home"} -> 5
      [] OTHER -> 6

(***************************************************************************)
(* TweetScraper.load_cookies.  c is what the file system and the browser   *)
(* do; the cookie file is "absent", "saved" by an earlier login, or        *)
(* "damaged" (not the JSON an earlier login meant to write).               *)
(***************************************************************************)
CookieEnvs ==
    [unreadable : BOOLEAN,          \* open() or json.load raises
     get : BOOLEAN,                 \* driver.get("https://x.com") raises
     rejected : BOOLEAN]            \* add_cookie raises for some cookie

\* try: self.driver.add_cookie(cookie) / except Exception: log -- whether an
\* exception leaves the loop over the cookies
add_cookies(rejected) == FALSE

\* the try block of load_cookies
load_cookies_try(jar, c) ==
    IF c.unreadable \/ jar \in {"damaged", "partial"}
        THEN Outcome(FALSE, TRUE, "untouched")
    ELSE IF c.get THEN Outcome(FALSE, TRUE, "untouched")
    ELSE IF add_cookies(c.rejected) THEN Outcome(FALSE, TRUE, "untouched")
    ELSE Outcome(TRUE, FALSE, "untouched")

\* except Exception as e: log, return False
load_cookies_except_None(r) == r
load_cookies_except(r) == IF r.raised THEN Outcome(FALSE, FALSE, r.cookie) ELSE r

load_cookies(jar, c) ==
    IF jar = "absent" THEN Outcome(FALSE, FALSE, "untouched")
    ELSE load_cookies_except(load_cookies_try(jar, c))

AuthInit ==
    /\ apc = "ready"
    /\ acreds \in BOOLEAN
    /\ cookieFile \in {"absent", "saved", "damaged"}
    /\ lenv = [raises |-> FALSE, form |-> "none", verify |-> FALSE,
               password |-> "none", home |-> FALSE, save |-> "ok"]
    /\ lres = Outcome(FALSE, FALSE, "untouched")
    /\ cenv = [unreadable |-> FALSE, get |-> FALSE, rejected |-> FALSE]
    /\ cres = Outcome(FALSE, FALSE, "untouched")
    /\ RunIdle
    /\ xpc = "off" /\ xnode = BareNode /\ xrec = None
    /\ SharedIdle
    /\ WrapperIdle
    /\ LoopIdle
    /\ JsIdle
    /\ CaptureIdle
    /\ JobsIdle

\* a call of login()
CallLogin ==
    /\ apc = "ready"
    /\ \E e \in LoginEnvs :
        LET r == login_call(acreds, e)
        IN /\ lenv' = e
           /\ lres' = r
           /\ cookieFile' = IF r.cookie = "untouched" THEN cookieFile ELSE r.cookie
           /\ apc' = IF r.raised THEN "login_raised" ELSE "login_returned"
    /\ UNCHANGED <<acreds, cenv, cres, offAuth>>

\* scrape_tweets up to the mirror: cookies_loaded = self.load_cookies(), then
\* the try block of the mirror attempt is entered
StartScrape ==
    /\ apc = "ready"
    /\ \E c \in CookieEnvs :
        LET r == load_cookies(cookieFile, c)
        IN /\ cenv' = c
           /\ cres' = r
           /\ apc' = IF r.raised THEN "scrape_raised" ELSE "mirror"
    /\ UNCHANGED <<acreds, cookieFile, lenv, lres, offAuth>>

AuthNext == CallLogin \/ StartScrape

SpecAuth == AuthInit /\ [][AuthNext]_vars

\* C16: a call of login() ends by returning a boolean, whatever raised
\* inside it.
C16_LoginReturnsBoolean ==
    apc \in {"login_returned", "login_raised"} =>
        (apc = "login_returned" /\ ~lres.raised /\ lres.value \in BOOLEAN)

\* a driver call raised inside login() and False was returned
C16_Witness ==
    apc = "login_returned" /\ acreds /\ lenv.raises /\ lres.value = FALSE

\* C17: when the home marker was found and saving the cookies raised,
\* login() returns True.
C17_SaveFailureIgnored ==
    (apc = "login_returned" /\ ReachedHome(acreds, lenv) /\ lenv.save # "ok") =>
        lres.value = TRUE

\* the home marker was found, opening x_cookies.json raised, and login()
\* has returned
C17_Witness ==
    /\ apc = "login_returned" /\ ReachedHome(acreds, lenv)
    /\ lenv.save = "open" /\ cookieFile # "written"

\* C18: load_cookies raises nothing, returns False for a missing or
\* unreadable file, and scrape_tweets goes on to the mirror attempt.
C18_CookieLoadNonFatal ==
    apc \in {"mirror", "scrape_raised"} =>
        /\ apc = "mirror" /\ ~cres.raised
        /\ (cookieFile # "saved" \/ cenv.unreadable \/ cenv.get) => cres.value = FALSE

\* the browser rejected a cookie and the mirror attempt was entered
C18_Witness ==
    apc = "mirror" /\ cookieFile = "saved" /\ ~cenv.unreadable /\ ~cenv.get /\ cenv.rejected

\* the events of the call of login() that ended, for every way the
\* optional step and the raising call can fall
EventsOfCall ==
    UNION {{LoginEvents(acreds, lenv, confirm, k) : k \in RaisePoints(lenv, confirm)} :
              confirm \in BOOLEAN}

C19_CookiesOnlyAfterSuccess ==
    cookieFile \in {"partial", "written"} =>
        (apc = "login_returned" /\ ReachedHome(acreds, lenv) /\ lres.value = TRUE)

\* a successful login wrote the file
C19_Witness == cookieFile = "written" /\ lres.value = TRUE /\ ReachedHome(acreds, lenv)

(***************************************************************************)
(* Runs of scrape.py for different targets, each its own process, started  *)
(* from the same working directory (tweedhat.py runs "python scrape.py     *)
(* <username>").  Of each run the accesses to its cookie file are kept:    *)
(* load_cookies reads it, a successful login opens it for writing (which   *)
(* empties it) and then dumps the cookies into it.                         *)
(***************************************************************************)
SharedInit ==
    /\ kpc = [t \in Targets |-> "start"]
    /\ kjar \in [Paths -> {"absent", "saved", "damaged"}]
    /\ kusers = [q \in Paths |-> {}]
    /\ kread = [t \in Targets |-> "none"]
    /\ RunIdle
    /\ AuthIdle
    /\ xpc = "off" /\ xnode = BareNode /\ xrec = None
    /\ WrapperIdle
    /\ LoopIdle
    /\ JsIdle
    /\ CaptureIdle
    /\ JobsIdle

\* load_cookies of the run for t: os.path.exists(cookie_file)
SharedExists(t) ==
    /\ kpc[t] = "start"
    /\ kpc' = [kpc EXCEPT ![t] =
                  IF kjar[CookiePath(t)] = "absent" THEN "loaded" ELSE "found"]
    /\ UNCHANGED <<kjar, kusers, kread, offShared>>

\* load_cookies of the run for t: open(cookie_file, "r") and json.load
SharedLoad(t) ==
    /\ kpc[t] = "found"
    /\ kpc' = [kpc EXCEPT ![t] = "loaded"]
    /\ kread' = [kread EXCEPT ![t] = kjar[CookiePath(t)]]
    /\ kusers' = [kusers EXCEPT ![CookiePath(t)] = @ \cup {t}]
    /\ UNCHANGED <<kjar, offShared>>

\* login of the run for t found the home marker: open("x_cookies.json", "w")
SharedOpen(t) ==
    /\ kpc[t] = "loaded"
    /\ kpc' = [kpc EXCEPT ![t] = "saving"]
    /\ kjar' = [kjar EXCEPT ![CookiePath(t)] = "partial"]
    /\ kusers' = [kusers EXCEPT ![CookiePath(t)] = @ \cup {t}]
    /\ UNCHANGED <<kread, offShared>>

\* json.dump(cookies, f) and the end of the with block
SharedDump(t) ==
    /\ kpc[t] = "saving"
    /\ kpc' = [kpc EXCEPT ![t] = "end"]
    /\ kjar' = [kjar EXCEPT ![CookiePath(t)] = "saved"]
    /\ UNCHANGED <<kusers, kread, offShared>>

\* the run for t ends without a login
SharedSkip(t) ==
    /\ kpc[t] = "loaded"
    /\ kpc' = [kpc EXCEPT ![t] = "end"]
    /\ UNCHANGED <<kjar, kusers, kread, offShared>>

SharedNext ==
    \E t \in Targets :
        \/ SharedExists(t)
        \/ SharedLoad(t)
        \/ SharedOpen(t)
        \/ SharedDump(t)
        \/ SharedSkip(t)

SpecShared == SharedInit /\ [][SharedNext]_vars

\* C20: no cookie file is opened by two of the concurrent runs, and no run
\* reads a cookie file another run is in the middle of writing.
C20_OwnCookieFile ==
    /\ \A q \in Paths : Cardinality(kusers[q]) <= 1
    /\ \A t \in Targets : kread[t] # "partial"

\* both runs have ended and one of them saved its cookies
C20_Witness ==
    /\ \A t \in Targets : kpc[t] = "end"
    /\ \E q \in Paths : kjar[q] = "saved" /\ kusers[q] # {}

(***************************************************************************)
(* run_scraper of tweedhat.py: scrape.py is run as a child process with    *)
(* its standard output and standard error captured apart, the path of the  *)
(* file it saved is looked for in the standard output, and when it is not  *)
(* found there the newest file of the user in TWEETS_FOLDER is taken.      *)
(* A file is <<user, stamp, state>>: the user and the time stamp of its    *)
(* name (also its modification time) and whether it is whole.              *)
(***************************************************************************)
MaxEarlier == 2
\* the time of this call: later than every earlier file
Now == MaxEarlier + 1
WUsers == {"alice", "bob"}
EarlierFiles == {<<u, n, "whole">> : u \in WUsers, n \in 1..MaxEarlier}
\* the file save_tweets names: f"{self.username}_tweets_{timestamp}.json"
NewFile(u, st) == <<u, Now, st>>

\* how a scrape.py process can go: the constructor raises (outside the try
\* of main), no tweet was scraped, save_tweets fails at one of its steps, or
\* the file is saved
ChildOutcomes == {"crashed", "empty", "mkdir", "open", "dump", "saved"}
\* exit status: only an exception leaving main gives a status other than 0
ExitStatus(o) == IF o = "crashed" THEN 1 ELSE 0
\* the files in the folder after the process
FolderAfter(folder, u, o) ==
    CASE o = "saved" -> folder \cup {NewFile(u, "whole")}
      [] o = "dump" -> folder \cup {NewFile(u, "partial")}
      [] OTHER -> folder
\* the messages the process logs at the end of main
SavedMsg == "Successfully saved tweets to"
LogLines(u, o) ==
    CASE o = "saved" -> << <<SavedMsg, NewFile(u, "whole")>> >>
      [] o = "empty" -> << <<"No tweets were scraped.", None>> >>
      [] o = "crashed" -> <<>>
      [] OTHER -> << <<"Error", None>> >>
\* logging.StreamHandler() without a stream writes to sys.stderr
StreamHandler == "stderr"
\* what the process writes to its standard output: scrape.py has no print
Stdout(u, o) == IF StreamHandler = "stdout" THEN LogLines(u, o) ELSE <<>>

\* f.startswith(f"{username}_tweets_") and f.endswith(".json")
TweetFiles(folder, u) == {f \in folder : f[1] = u}
\* tweet_files.sort(key=getmtime, reverse=True); tweet_files[0]
Newest(fs) == CHOOSE f \in fs : \A g \in fs : g[2] <= f[2]

WrapperInit ==
    /\ wpc = "start"
    /\ wuser \in WUsers
    /\ wfolder \in SUBSET EarlierFiles
    /\ woutcome = "none" /\ wexit = 0 /\ wstdout = <<>> /\ wret = None
    /\ RunIdle
    /\ AuthIdle
    /\ SharedIdle
    /\ LoopIdle
    /\ JsIdle
    /\ CaptureIdle
    /\ JobsIdle
    /\ xpc = "off" /\ xnode = BareNode /\ xrec = None

\* subprocess.run(cmd, check=True, capture_output=True, text=True)
WRunChild ==
    /\ wpc = "start"
    /\ \E o \in ChildOutcomes :
        /\ woutcome' = o
        /\ wexit' = ExitStatus(o)
        /\ wfolder' = FolderAfter(wfolder, wuser, o)
        /\ wstdout' = Stdout(wuser, o)
    /\ wpc' = "ran"
    /\ UNCHANGED <<wuser, wret, offWrapper>>

\* check=True raises CalledProcessError for a status other than 0 and None
\* is returned; otherwise the lines of the output are searched for the
\* message of save_tweets
WSearchOutput ==
    /\ wpc = "ran"
    /\ LET hits == {i \in 1..Len(wstdout) : wstdout[i][1] = SavedMsg}
       IN IF wexit # 0
             THEN wret' = None /\ wpc' = "returned"
          ELSE IF hits # {}
             THEN /\ wret' = wstdout[CHOOSE i \in hits : \A j \in hits : i <= j][2]
                  /\ wpc' = "returned"
          ELSE wret' = wret /\ wpc' = "listing"
    /\ UNCHANGED <<wuser, wfolder, woutcome, wexit, wstdout, offWrapper>>

\* the most recent file of the user in TWEETS_FOLDER, None without one
WMostRecent ==
    /\ wpc = "listing"
    /\ wret' = IF TweetFiles(wfolder, wuser) = {} THEN None
               ELSE Newest(TweetFiles(wfolder, wuser))
    /\ wpc' = "returned"
    /\ UNCHANGED <<wuser, wfolder, woutcome, wexit, wstdout, offWrapper>>

WrapperNext == WRunChild \/ WSearchOutput \/ WMostRecent

SpecWrapper == WrapperInit /\ [][WrapperNext]_vars

\* C21: run_scraper returns the file this call's scraper saved, and None
\* when the scraper saved none; it never returns a file of an earlier run.
C21_ReturnsOwnFile ==
    wpc = "returned" =>
        wret = (IF woutcome = "saved" THEN NewFile(wuser, "whole") ELSE None)

\* the scraper saved a file and run_scraper returned it
C21_Witness ==
    wpc = "returned" /\ woutcome = "saved" /\ wret = NewFile(wuser, "whole")

\* what a call of login() can return
LoginResults(hasCreds) == {login(hasCreds, e) : e \in LoginEnvs}


(***************************************************************************)
(* The pages of a run.  feed is the sequence, in page order, of the         *)
(* target's posts the pages have shown so far; an enumeration of the DOM   *)
(* returns the nodes of its first n posts and may show posts not seen      *)
(* before.  The post at position i carries status id i ("good"), carries   *)
(* no status link ("nolink") or is detached when it is read ("stale").     *)
(***************************************************************************)
\* the text of the post at position i of the page
PostText(i) == <<"post", IdStr(i)>>

PostNode(b, kind, i) ==
    IF kind = "stale" THEN StaleNode
    ELSE [BareNode EXCEPT
            !.link = IF kind = "nolink" THEN NoLink
                     ELSE Href(IF b = "nitter" THEN NitterUrl(i) ELSE XUrl(i)),
            !.text = Text(PostText(i))]

Kinds == {"good", "nolink", "stale"}
\* the feed after a page has shown its first n posts
Extensions(f, n) ==
    IF n <= Len(f) THEN {f}
    ELSE {f \o e : e \in [1..(n - Len(f)) -> Kinds]}
\* find_elements: the nodes of the first n posts
Elements(b, f, n) == [i \in 1..n |-> PostNode(b, f[i], i)]

\* document.body.scrollHeight: the loop only compares readings for equality,
\* and two heights give every sequence of outcomes of those comparisons
Heights == {1, 2}

\* self.max_tweets and len(tweets) >= self.max_tweets
CapReached_Strict(cap, tw) == cap # 0 /\ Len(tw) > cap
CapReached(cap, tw) == cap # 0 /\ Len(tw) >= cap

\* the mirror's for loop over tweet_elements: [tweets, returned]
RECURSIVE MirrorLoop(_, _, _)
MirrorLoop(elems, acc, cap) ==
    IF elems = <<>> THEN [tweets |-> acc, returned |-> FALSE]
    ELSE LET tweet_data == _extract_nitter_tweet_data(Head(elems))
             acc2 == IF tweet_data # None THEN Append(acc, tweet_data[1]) ELSE acc
         IN IF tweet_data # None /\ CapReached(cap, acc2)
            THEN [tweets |-> acc2, returned |-> TRUE]
            ELSE MirrorLoop(Tail(elems), acc2, cap)

RECURSIVE OriginLoop_StopAtNone(_, _, _)
OriginLoop_StopAtNone(elems, acc, cap) ==
    IF elems = <<>> THEN [tweets |-> acc, returned |-> FALSE]
    ELSE LET tweet_data == _extract_tweet_data(Head(elems))
         IN IF tweet_data = None THEN [tweets |-> acc, returned |-> FALSE]
            ELSE IF CapReached(cap, Append(acc, tweet_data[1]))
            THEN [tweets |-> Append(acc, tweet_data[1]), returned |-> TRUE]
            ELSE OriginLoop_StopAtNone(Tail(elems), Append(acc, tweet_data[1]), cap)

RECURSIVE OriginLoop_MirrorExtract(_, _, _)
OriginLoop_MirrorExtract(elems, acc, cap) ==
    IF elems = <<>> THEN [tweets |-> acc, returned |-> FALSE]
    ELSE LET tweet_data == _extract_nitter_tweet_data(Head(elems))
             acc2 == IF tweet_data # None THEN Append(acc, tweet_data[1]) ELSE acc
         IN IF CapReached(cap, acc2)
            THEN [tweets |-> acc2, returned |-> TRUE]
            ELSE OriginLoop_MirrorExtract(Tail(elems), acc2, cap)

\* the origin's for loop over tweet_elements[len(tweets):]
RECURSIVE OriginLoop(_, _, _)
OriginLoop(elems, acc, cap) ==
    IF elems = <<>> THEN [tweets |-> acc, returned |-> FALSE]
    ELSE LET tweet_data == _extract_tweet_data(Head(elems))
             acc2 == IF tweet_data # None THEN Append(acc, tweet_data[1]) ELSE acc
         IN IF CapReached(cap, acc2)
            THEN [tweets |-> acc2, returned |-> TRUE]
            ELSE OriginLoop(Tail(elems), acc2, cap)

\* if tweet_data: tweets.append(tweet_data) -- the positions, among the
\* first n of feed f, of the posts whose extraction returns a record
RECURSIVE Kept(_, _)
Kept(f, n) ==
    IF n = 0 THEN <<>>
    ELSE IF f[n] = "stale" THEN Kept(f, n - 1)
    ELSE Append(Kept(f, n - 1), n)

\* tweet_elements[len(tweets):]
NewElements(tweet_elements, tw) == SubSeq(tweet_elements, Len(tw) + 1, Len(tweet_elements))

(***************************************************************************)
(* One run of main(), from the parsed arguments on.                        *)
(***************************************************************************)
RunInit ==
    /\ pc = "new"
    /\ max_tweets \in 0..MaxCap
    /\ creds \in BOOLEAN
    /\ feed = <<>>
    /\ cookies_loaded = FALSE
    /\ tweets = <<>> /\ scroll_count = 0 /\ last_height = 0
    /\ settled = FALSE /\ stillCycles = 0 /\ shown = 0 /\ protectedPage = FALSE
    /\ attempts = <<>> /\ mirrorCount = 0 /\ profileOpened = FALSE /\ loginCalls = 0
    /\ reason = "none" /\ result = <<>> /\ backend = "none" /\ file = <<>>
    /\ live = 0 /\ writes = 0 /\ fileState = "none" /\ saveError = "none"
    /\ failedAt = 0
    /\ xpc = "off" /\ xnode = BareNode /\ xrec = None
    /\ AuthIdle
    /\ SharedIdle
    /\ WrapperIdle
    /\ LoopIdle
    /\ JsIdle
    /\ CaptureIdle
    /\ JobsIdle

\* scrape_tweets returns v, produced by backend b, after logging why; the
\* frame's locals (tweets, scroll_count, last_height) end with the call, and
\* the page is no longer read
Return(v, b, why) ==
    /\ pc' = "returned"
    /\ result' = v
    /\ backend' = b
    /\ reason' = why
    /\ tweets' = <<>>
    /\ scroll_count' = 0
    /\ last_height' = 0
    /\ settled' = FALSE

\* scraper = TweetScraper(...): __init__ ends with _init_driver, which
\* launches Chrome, runs the CDP commands and scripts and loads about:blank;
\* its except clause logs and re-raises, and main has no handler around the
\* constructor: the process ends with the traceback
Construct ==
    /\ pc = "new"
    /\ \E step \in {"ok", "launch_raises", "setup_raises"} :
        /\ live' = IF step = "launch_raises" THEN live ELSE live + 1
        /\ pc' = IF step = "ok" THEN "start" ELSE "crashed"
    /\ UNCHANGED <<max_tweets, creds, cookies_loaded, feed, tweets, scroll_count,
                   last_height, settled, stillCycles, shown, protectedPage,
                   attempts, mirrorCount, profileOpened, loginCalls, reason,
                   result, backend, file, writes, fileState, saveError,
                   failedAt, offRun>>

\* cookies_loaded = self.load_cookies(): False without a cookie file or when
\* reading it raises; otherwise x.com is opened and the cookies are added
LoadCookies ==
    /\ pc = "start"
    /\ \E jar \in {"absent", "saved", "damaged"}, c \in CookieEnvs :
        cookies_loaded' = load_cookies(jar, c).value
    /\ pc' = "mirror"
    /\ UNCHANGED <<max_tweets, creds, feed, tweets, scroll_count, last_height,
                   settled, stillCycles, shown, protectedPage, attempts,
                   profileOpened, loginCalls, reason, result, backend, file,
                   mirrorCount, live, writes, fileState, saveError, failedAt,
                   offRun>>

\* if tweets: return tweets -- the mirror's result is accepted
MirrorAccepted_Always(failed, tw) == TRUE
MirrorAccepted_Never(failed, tw) == FALSE
MirrorAccepted(failed, tw) == failed = "no" /\ tw # <<>>

\* the mirror attempt: navigate, screenshot, redirect check, wait for
\* .timeline-item, one enumeration, the loop, and the acceptance test
MirrorAttempt ==
    /\ pc = "mirror"
    /\ attempts' = Append(attempts, "nitter")
    /\ \E failed \in {"no", "raises", "redirected", "timeout"}, n \in 0..MaxNodes :
        \E f \in Extensions(feed, n) :
        LET r == MirrorLoop(Elements("nitter", f, n), <<>>, max_tweets)
        IN /\ failed # "no" => n = 0
           /\ feed' = f
           /\ mirrorCount' = Len(r.tweets)
           /\ IF MirrorAccepted(failed, r.tweets)
              THEN /\ Return(r.tweets, "nitter", IF r.returned THEN "cap" ELSE "none")
                   /\ shown' = n
              ELSE /\ pc' = "origin"
                   /\ UNCHANGED <<tweets, scroll_count, last_height, settled,
                                  shown, result, backend, reason>>
    /\ UNCHANGED <<max_tweets, creds, cookies_loaded, stillCycles,
                   protectedPage, profileOpened, loginCalls, file, live, writes,
                   fileState, saveError, failedAt, offRun>>

\* if not self.login(): return [] -- the attempt goes on only after True
LoginGate_Ignore(ok) == TRUE
LoginGate(ok) == ok

\* failedAt after a call of login() that returned ok
FailedAt(ok) == IF ~ok /\ failedAt = 0 THEN loginCalls + 1 ELSE failedAt

\* the origin attempt begins: if not cookies_loaded and self.email and
\* self.password: if not self.login(): return []
OriginPreLogin ==
    /\ pc = "origin"
    /\ attempts' = Append(attempts, "x.com")
    /\ IF ~cookies_loaded /\ creds
       THEN \E ok \in LoginResults(creds) :
              /\ loginCalls' = loginCalls + 1
              /\ failedAt' = FailedAt(ok)
              /\ IF LoginGate(ok)
                 THEN /\ pc' = "origin_nav"
                      /\ UNCHANGED <<reason, result, backend, tweets,
                                     scroll_count, last_height, settled>>
                 ELSE Return(<<>>, "none", "login_failed")
       ELSE /\ pc' = "origin_nav"
            /\ UNCHANGED <<loginCalls, failedAt, reason, result, backend, tweets,
                           scroll_count, last_height, settled>>
    /\ UNCHANGED <<max_tweets, creds, cookies_loaded, feed, stillCycles, shown,
                   protectedPage, profileOpened, file, mirrorCount, live, writes,
                   fileState, saveError, offRun>>

\* driver.get(profile_url), the screenshot, and the login-page gate: with
\* credentials login() and a second driver.get(profile_url), without them
\* return [].  The page that ends up loaded may show the protected notice.
OriginNavigate ==
    /\ pc = "origin_nav"
    /\ profileOpened' = TRUE
    /\ \E raises \in BOOLEAN, onLogin \in BOOLEAN, logged \in LoginResults(creds),
          raisesAfter \in BOOLEAN, prot \in BOOLEAN :
        LET gate == ~raises /\ onLogin
            called == gate /\ creds
            ok == called /\ LoginGate(logged)
        IN /\ loginCalls' = IF called THEN loginCalls + 1 ELSE loginCalls
           /\ failedAt' = IF called THEN FailedAt(logged) ELSE failedAt
           /\ IF raises \/ (ok /\ raisesAfter)
              THEN Return(<<>>, "none", "error") /\ UNCHANGED protectedPage
              ELSE IF gate /\ ~creds
              THEN Return(<<>>, "none", "login_required") /\ UNCHANGED protectedPage
              ELSE IF gate /\ ~ok
              THEN Return(<<>>, "none", "login_failed") /\ UNCHANGED protectedPage
              ELSE /\ pc' = "js_check"
                   /\ protectedPage' = prot
                   /\ UNCHANGED <<reason, result, backend, tweets,
                                  scroll_count, last_height, settled>>
    /\ UNCHANGED <<max_tweets, creds, cookies_loaded, feed, stillCycles, shown,
                   attempts, file, mirrorCount, live, writes,
                   fileState, saveError, offRun>>

\* why the JavaScript-disabled check returns [], "none" when the attempt
\* goes on: an exception reaches the handler of the origin attempt, or the
\* marker is still there after the restart
JsReason(step) ==
    CASE step \in {"read_raises", "dump_raises", "launch_raises", "setup_raises"}
            -> "error"
      [] step = "still" -> "js_disabled"
      [] OTHER -> "none"

\* "JavaScript is not available" in page_source (a page that shows it shows
\* no protected notice): dump the page, quit the browser, start one with a
\* mobile user agent, load the profile again and give up if the marker is
\* still there
JsCheck ==
    /\ pc = "js_check"
    /\ \E step \in {"no_marker", "read_raises", "dump_raises", "launch_raises",
                     "setup_raises", "still", "ok"},
          prot \in BOOLEAN :
        /\ step \notin {"no_marker", "read_raises"} => ~protectedPage
        /\ step # "ok" => prot = protectedPage
        \* self.driver.quit() ends the old browser before the new one is launched
        /\ live' = CASE step \in {"no_marker", "read_raises", "dump_raises"} -> live
                      [] step = "launch_raises" -> live - 1
                      [] OTHER -> (live - 1) + 1
        /\ IF JsReason(step) # "none"
           THEN Return(<<>>, "none", JsReason(step)) /\ UNCHANGED protectedPage
           ELSE /\ pc' = "wait"
                /\ protectedPage' = prot
                /\ UNCHANGED <<reason, result, backend, tweets, scroll_count,
                               last_height, settled>>
    /\ UNCHANGED <<max_tweets, creds, cookies_loaded, feed, stillCycles, shown,
                   attempts, profileOpened, loginCalls, file, mirrorCount, writes,
                   fileState, saveError, failedAt, offRun>>

\* the marker named when the wait timed out and no cellInnerDiv was found:
\* the if / elif / elif chain over page_source
MarkerReason(notFound, protected, wentWrong) ==
    IF notFound THEN "not_found"
    ELSE IF protected THEN "protected"
    ELSE IF wentWrong THEN "went_wrong"
    ELSE "timeout"

\* with no article and no cellInnerDiv the page markers are inspected and []
\* is returned
MarkersInspected(found, alt) == ~found /\ ~alt

\* WebDriverWait for article[data-testid='tweet']; on timeout the alternative
\* selector and the page markers; then the loop's initialisation.  A page
\* shows at most one of the three notices, and a protected page no article.
WaitForTweets ==
    /\ pc = "wait"
    /\ \E found \in BOOLEAN, alt \in BOOLEAN, raises \in BOOLEAN,
          notFound \in BOOLEAN, wentWrong \in BOOLEAN,
          h \in Heights, st \in BOOLEAN :
        /\ protectedPage => (~found /\ ~notFound /\ ~wentWrong)
        /\ ~(notFound /\ wentWrong)
        /\ IF raises
           THEN Return(<<>>, "none", "error")
           ELSE IF MarkersInspected(found, alt)
           THEN Return(<<>>, "none", MarkerReason(notFound, protectedPage, wentWrong))
           ELSE /\ pc' = "loop"
                /\ tweets' = <<>>
                /\ scroll_count' = 0
                /\ last_height' = h
                /\ settled' = st
                /\ UNCHANGED <<reason, result, backend>>
    /\ UNCHANGED <<max_tweets, creds, cookies_loaded, feed, stillCycles, shown,
                   protectedPage, attempts, profileOpened, loginCalls, file, mirrorCount, live, writes,
                   fileState, saveError, failedAt, offRun>>

\* while scroll_count < max_scrolls
ScrollAllowed_Inclusive(sc) == sc <= max_scrolls
ScrollAllowed(sc) == sc < max_scrolls

\* the convergence test of one cycle: the reading after the scroll and the
\* reading after the longer wait both equal last_height
Converged_NoBreak(h1, h2, last) == FALSE
Converged_Single(h1, h2, last) == h1 = last
Converged(h1, h2, last) == h1 = last /\ h2 = last

\* new_height as the cycle leaves it: the first reading, or the second one
\* when the first equalled last_height
NewHeight(h1, h2, last) == IF h1 = last THEN h2 ELSE h1

\* one cycle of the origin loop: enumerate, extract the new elements, check
\* the cap, scroll, read the height (h1), and after an unchanged reading wait
\* longer and read it again (h2; without a second reading h2 stands for h1).
\* An exception may end the cycle at any driver call.  A protected page
\* shows no article.
ScrollCycle ==
    /\ pc = "loop"
    /\ ScrollAllowed(scroll_count)
    /\ \E n \in 0..MaxNodes :
        /\ protectedPage => n = 0
        /\ \E f \in Extensions(feed, n) :
            LET tweet_elements == Elements("x.com", f, n)
                r == OriginLoop(NewElements(tweet_elements, tweets), tweets, max_tweets)
            IN /\ feed' = f
               /\ shown' = IF scroll_count = 0 THEN n ELSE 0
               /\ IF r.returned
                  THEN /\ Return(r.tweets, "x.com", "cap")
                       /\ UNCHANGED stillCycles
                  ELSE \E raises \in BOOLEAN, h1 \in Heights, h2 \in Heights,
                          settle \in BOOLEAN :
                       /\ settled => (h1 = last_height /\ h2 = last_height /\ settle)
                       /\ h1 # last_height => h2 = h1
                       /\ raises => (h2 = h1 /\ settle)
                       /\ IF raises
                          THEN /\ Return(<<>>, "none", "error")
                               /\ UNCHANGED stillCycles
                          ELSE /\ stillCycles' = IF settled /\ stillCycles < MaxStill
                                                 THEN stillCycles + 1 ELSE stillCycles
                               /\ IF Converged(h1, h2, last_height)
                                  THEN Return(r.tweets, "x.com", "converged")
                                  ELSE /\ tweets' = r.tweets
                                       /\ scroll_count' = scroll_count + 1
                                       /\ last_height' = NewHeight(h1, h2, last_height)
                                       /\ settled' = settle
                                       /\ UNCHANGED <<pc, result, backend, reason>>
    /\ UNCHANGED <<max_tweets, creds, cookies_loaded, protectedPage,
                   attempts, profileOpened, loginCalls, file, mirrorCount, live, writes,
                   fileState, saveError, failedAt, offRun>>

\* the while condition fails: return tweets
LoopCeiling ==
    /\ pc = "loop"
    /\ ~ScrollAllowed(scroll_count)
    /\ Return(tweets, "x.com", "ceiling")
    /\ UNCHANGED <<max_tweets, creds, cookies_loaded, feed, stillCycles, shown,
                   protectedPage, attempts, profileOpened, loginCalls, file, mirrorCount, live, writes,
                   fileState, saveError, failedAt, offRun>>

Document_NoCount(tw) == [username |-> "user", tweet_count |-> 0, tweets |-> tw]
\* save_tweets: the document json.dump writes
Document(tw) == [username |-> "user", tweet_count |-> Len(tw), tweets |-> tw]

\* if tweets: (main) and if not tweets: return None (save_tweets)
NonEmpty_Always(tw) == TRUE
NonEmpty(tw) == tw # <<>>

\* main: if tweets: scraper.save_tweets(tweets, args.output); finally close().
\* save_tweets creates the output folder (outside its try: an exception
\* reaches main's handler), opens the file for writing and dumps the
\* document; an exception of open or of json.dump is logged and None
\* returned, and what json.dump had written stays in the file.  close()
\* quits the browser self.driver refers to.
SaveAndClose ==
    /\ pc = "returned"
    /\ pc' = "done"
    /\ IF NonEmpty(result)
       THEN \E step \in {"ok", "mkdir", "open", "dump"} :
              /\ writes' = IF step = "mkdir" THEN writes ELSE writes + 1
              /\ fileState' = CASE step = "ok" -> "complete"
                                 [] step = "dump" -> "partial"
                                 [] OTHER -> fileState
              /\ file' = IF step = "ok" THEN <<Document(result)>> ELSE file
              /\ saveError' = IF step = "ok" THEN "none" ELSE step
       ELSE UNCHANGED <<writes, fileState, file, saveError>>
    /\ live' = 0
    /\ UNCHANGED <<max_tweets, creds, cookies_loaded, feed, tweets, scroll_count,
                   last_height, settled, stillCycles, shown, protectedPage,
                   attempts, profileOpened, loginCalls, reason, result, backend,
                   mirrorCount, failedAt, offRun>>

Next ==
    \/ Construct
    \/ LoadCookies
    \/ MirrorAttempt
    \/ OriginPreLogin
    \/ OriginNavigate
    \/ JsCheck
    \/ WaitForTweets
    \/ ScrollCycle
    \/ LoopCeiling
    \/ SaveAndClose

Spec == RunInit /\ [][Next]_vars

(***************************************************************************)
(* Properties of a run.                                                    *)
(***************************************************************************)
Both == <<"nitter", "x.com">>
Ended == pc \in {"returned", "done"}

\* C1: when max_tweets is set, neither the list under collection nor the
\* list scrape_tweets returns is longer than max_tweets, on either backend.
C1_CapRespected ==
    max_tweets > 0 => (Len(tweets) <= max_tweets /\ Len(result) <= max_tweets)

\* the origin page showed more nodes than the cap and the cap was returned
C1_Witness ==
    /\ pc = "returned" /\ backend = "x.com"
    /\ max_tweets > 0 /\ shown > max_tweets
    /\ Len(result) = max_tweets

\* C2: in every state the ids of the collected tweets, and of the returned
\* ones, are pairwise distinct.
C2_DistinctIds ==
    /\ \A i, j \in 1..Len(tweets) : i # j => tweets[i].id # tweets[j].id
    /\ \A i, j \in 1..Len(result) : i # j => result[i].id # result[j].id

\* C3: the origin loop never runs more than max_scrolls cycles.
C3_ScrollCeiling == scroll_count <= max_scrolls

\* every cycle found a new height and the ceiling ended the loop
C3_Witness == pc = "returned" /\ reason = "ceiling"

\* C4: once the page height has stopped changing, at most two cycles follow
\* the cycle of the first unchanged reading, and then the loop has ended.
C4_ConvergesWithinTwo ==
    /\ stillCycles <= 3
    /\ pc = "loop" => stillCycles <= 2

\* a page whose height had stopped changing ended the loop by convergence
C4_Witness == pc = "returned" /\ reason = "converged" /\ stillCycles = 1

\* C5: the mirror is attempted first and never after the origin, and a run
\* whose mirror attempt collected no record goes on to attempt the origin.
C5_BackendOrder ==
    /\ attempts \in {<<>>, <<"nitter">>, Both}
    /\ pc \in {"origin_nav", "js_check", "wait", "loop"} => attempts = Both
    /\ (Ended /\ mirrorCount = 0) => attempts = Both

\* the mirror collected nothing and the origin's records were returned
C5_Witness ==
    /\ pc = "returned" /\ mirrorCount = 0 /\ attempts = Both
    /\ backend = "x.com" /\ result # <<>>

\* C6: when the mirror attempt collected a record, its list is what
\* scrape_tweets returns; the origin is not attempted, the profile URL is
\* not opened and login() is not invoked.
C6_MirrorAccepted ==
    mirrorCount > 0 =>
        /\ attempts = <<"nitter">>
        /\ ~profileOpened
        /\ loginCalls = 0
        /\ Ended /\ backend = "nitter" /\ Len(result) = mirrorCount

\* a run that wrote the mirror's records to the file
C6_Witness == pc = "done" /\ mirrorCount > 0 /\ backend = "nitter" /\ file # <<>>

\* the first enumeration of the accepted page showed more posts than the cap
\* and the file was written
CapBelowShown == pc = "done" /\ file # <<>> /\ max_tweets > 0 /\ shown > max_tweets

C8_ProtectedReported ==
    (Ended /\ protectedPage /\ ~creds /\ reason # "error") =>
        (reason = "protected" /\ result = <<>>)

\* the protected notice was found and named
C8_Witness == pc = "returned" /\ protectedPage /\ ~creds /\ reason = "protected"

\* C26: login() is invoked only after the origin profile page was opened.
C26_LoginAfterProfile == loginCalls > 0 => profileOpened

\* the cookies were restored, the profile page was the login page, and
\* login() was invoked
C26_Witness ==
    /\ cookies_loaded /\ creds /\ profileOpened /\ loginCalls = 1
    /\ pc = "js_check"

\* C12: when the run has ended, normally or with an exception of the
\* constructor, no browser process it launched is still running.
C12_BrowsersQuit == pc \in {"done", "crashed"} => live = 0

\* the mobile restart launched a second browser and close() quit it
C12_Witness == pc = "done" /\ reason = "js_disabled" /\ live = 0

\* C13: the output path never holds a partial document.
C13_NoPartialFile == fileState # "partial"

\* a write failed before anything was written: no file
C13_Witness == pc = "done" /\ saveError = "open" /\ fileState = "none"

\* C14 as stated: a write of the output file is attempted exactly once when
\* scrape_tweets returned records, and never otherwise.
C14_WriteIffRecords ==
    /\ writes <= 1
    /\ pc = "done" => (writes = 1 <=> result # <<>>)

\* C14: a write of the output file is attempted at most once; never for an
\* empty result, and exactly once for a non-empty one unless creating the
\* output folder raised.
C14_OneWriteUnlessNoFolder ==
    /\ writes <= 1
    /\ writes = 1 => (pc = "done" /\ result # <<>>)
    /\ (pc = "done" /\ result = <<>>) => (writes = 0 /\ fileState = "none")
    /\ (pc = "done" /\ result # <<>> /\ saveError # "mkdir") => writes = 1

\* records were returned and the one write was attempted and failed
C14_Witness == pc = "done" /\ result # <<>> /\ writes = 1 /\ saveError = "dump"

\* C15: once login() has returned False it is not invoked again, and
\* scrape_tweets returns an empty result.
C15_NoLoginRetry ==
    failedAt > 0 => (Ended /\ result = <<>> /\ loginCalls = failedAt)

\* the login at the login-page gate failed after the one before navigation
\* had succeeded
C15_Witness == pc = "returned" /\ failedAt = 2 /\ reason = "login_failed"

\* C33: every record scrape_tweets returns, and every record collected on
\* the way, carries the source value of the one backend that produced the
\* list; mirror and origin records are never mixed.
C33_OneSource ==
    /\ \A i \in 1..Len(tweets) : tweets[i].source = "x.com"
    /\ \A i \in 1..Len(result) : result[i].source = backend
    /\ result # <<>> => backend \in {"x.com", "nitter"}

\* the mirror collected nothing, and the origin's loop returned two records
C33_Witness ==
    /\ Ended /\ backend = "x.com" /\ mirrorCount = 0 /\ Len(result) = 2
    /\ attempts = <<"nitter", "x.com">>
    /\ result[1].source = "x.com" /\ result[2].source = "x.com"

(***************************************************************************)
(* The pagination loops of scrape_tweets on their own, with what the run   *)
(* does not keep: how often each node was passed to the extractor and what *)
(* the height readings of the last cycle were.  Nodes are numbered by      *)
(* their position in the DOM.                                              *)
(***************************************************************************)
\* how many elements of the slice the origin's for loop passes to
\* self._extract_tweet_data before it ends or returns
RECURSIVE OriginCalls(_, _, _)
OriginCalls(elems, acc, cap) ==
    IF elems = <<>> THEN 0
    ELSE LET tweet_data == _extract_tweet_data(Head(elems))
             acc2 == IF tweet_data # None THEN Append(acc, tweet_data[1]) ELSE acc
         IN IF CapReached(cap, acc2) THEN 1
            ELSE 1 + OriginCalls(Tail(elems), acc2, cap)

\* the same for the mirror's loop, which returns only after an append
RECURSIVE MirrorCalls(_, _, _)
MirrorCalls(elems, acc, cap) ==
    IF elems = <<>> THEN 0
    ELSE LET tweet_data == _extract_nitter_tweet_data(Head(elems))
             acc2 == IF tweet_data # None THEN Append(acc, tweet_data[1]) ELSE acc
         IN IF tweet_data # None /\ CapReached(cap, acc2) THEN 1
            ELSE 1 + MirrorCalls(Tail(elems), acc2, cap)

\* the nodes from .. from + k - 1 were passed once more
Passed(passes, from, k) ==
    [i \in DOMAIN passes |->
        IF i >= from /\ i < from + k
        THEN (IF passes[i] = "never" THEN "once" ELSE "again")
        ELSE passes[i]]

\* the two readings of a cycle against last_height
Readings(h1, h2, last) ==
    IF h1 # last THEN "changed" ELSE IF h2 # last THEN "late" ELSE "still"

\* the posts of the loops: extraction gives a record or gives nothing
LoopKinds == {"good", "stale"}
\* the feed after a page has shown its first n posts
LoopExtensions(f, n) ==
    IF n <= Len(f) THEN {f}
    ELSE {f \o e : e \in [1..(n - Len(f)) -> LoopKinds]}

\* self.max_tweets, 0 for None: up to a cap the first enumeration does not fill
LoopCaps == 0..(MaxCap + 1)

LoopInit ==
    /\ lpc \in {"mirror", "loop"}
    /\ lcap \in LoopCaps
    /\ lfeed = <<>> /\ lseen = 0 /\ ltweets = <<>> /\ lscroll = 0
    /\ llast \in (IF lpc = "loop" THEN Heights ELSE {0})
    /\ lreadings = "none"
    /\ lpasses = [i \in 1..MaxNodes |-> "never"]
    /\ lend = "none"
    /\ RunIdle
    /\ AuthIdle
    /\ SharedIdle
    /\ WrapperIdle
    /\ JsIdle
    /\ CaptureIdle
    /\ JobsIdle
    /\ xpc = "off" /\ xnode = BareNode /\ xrec = None

\* the mirror's enumeration and for loop, then if tweets: return tweets
LMirror ==
    /\ lpc = "mirror"
    /\ \E n \in 0..MaxNodes : \E f \in LoopExtensions(lfeed, n) :
        LET tweet_elements == Elements("nitter", f, n)
            r == MirrorLoop(tweet_elements, <<>>, lcap)
        IN /\ lfeed' = f
           /\ lseen' = n
           /\ ltweets' = r.tweets
           /\ lpasses' = Passed(lpasses, 1, MirrorCalls(tweet_elements, <<>>, lcap))
           /\ lend' = IF r.returned THEN "cap"
                      ELSE IF r.tweets # <<>> THEN "accepted" ELSE "fallback"
    /\ lpc' = "ended"
    /\ UNCHANGED <<lcap, lscroll, llast, lreadings, offLoop>>

\* one cycle of the origin's while loop
LCycle ==
    /\ lpc = "loop"
    /\ ScrollAllowed(lscroll)
    /\ lscroll' = lscroll + 1
    /\ \E n \in 0..MaxNodes : \E f \in LoopExtensions(lfeed, n) :
        LET tweet_elements == Elements("x.com", f, n)
            slice == NewElements(tweet_elements, ltweets)
            r == OriginLoop(slice, ltweets, lcap)
        IN /\ lfeed' = f
           /\ lseen' = n
           /\ lpasses' = Passed(lpasses, Len(ltweets) + 1,
                                OriginCalls(slice, ltweets, lcap))
           /\ IF r.returned
              THEN /\ ltweets' = r.tweets
                   /\ lend' = "cap" /\ lpc' = "ended"
                   /\ lreadings' = "none"
                   /\ UNCHANGED llast
              ELSE \E raises \in BOOLEAN, h1 \in Heights, h2 \in Heights :
                   /\ h1 # llast => h2 = h1
                   /\ raises => (h1 = llast /\ h2 = llast)
                   /\ IF raises
                      THEN /\ ltweets' = <<>>
                           /\ lend' = "error" /\ lpc' = "ended"
                           /\ lreadings' = "none"
                           /\ UNCHANGED llast
                      ELSE /\ ltweets' = r.tweets
                           /\ lreadings' = Readings(h1, h2, llast)
                           /\ IF Converged(h1, h2, llast)
                              THEN /\ lend' = "converged" /\ lpc' = "ended"
                                   /\ UNCHANGED llast
                              ELSE /\ llast' = NewHeight(h1, h2, llast)
                                   /\ UNCHANGED <<lpc, lend>>
    /\ UNCHANGED <<lcap, offLoop>>

\* the while condition fails: the statements after the loop
LCeiling ==
    /\ lpc = "loop"
    /\ ~ScrollAllowed(lscroll)
    /\ lend' = "ceiling" /\ lpc' = "ended"
    /\ UNCHANGED <<lcap, lfeed, lseen, ltweets, lscroll, llast, lreadings,
                   lpasses, offLoop>>

LoopNext == LMirror \/ LCycle \/ LCeiling

SpecLoop == LoopInit /\ [][LoopNext]_vars

\* C22: no node is passed to the extractor more than once in the cycles of
\* the origin loop.
C22_EachNodeOnce == \A i \in DOMAIN lpasses : lpasses[i] # "again"

\* two cycles over two posts whose extraction succeeds: each passed once
C22_Witness ==
    /\ lscroll = 2 /\ Len(ltweets) = 2
    /\ lpasses[1] = "once" /\ lpasses[2] = "once"

\* C27: the mirror attempt ends only after scroll cycles when its page
\* showed fewer posts than max_tweets.
C27_MirrorPaginates ==
    (lpc = "ended" /\ lend \in {"accepted", "fallback"} /\ lseen < lcap) =>
        lscroll >= 1

\* the mirror's result was accepted with fewer records than max_tweets
C27_Witness ==
    lpc = "ended" /\ lend = "accepted" /\ lseen >= 1 /\ Len(ltweets) < lcap

\* s is a prefix of t
IsPrefix(s, t) == Len(s) <= Len(t) /\ \A k \in 1..Len(s) : t[k] = s[k]

\* the records appended by the step
Appended == {ltweets'[k] : k \in (Len(ltweets) + 1)..Len(ltweets')}

\* C23: a node whose extraction gives nothing is skipped: in every step of
\* either loop that no exception ends, the records collected before stay as
\* they were, and every enumerated node beyond them whose extraction gives
\* a record has that record appended, unless the cap ended the loop.
C23_SkipAndContinue ==
    [][(lpc = "mirror" \/ lscroll' # lscroll) /\ lend' # "error" =>
        /\ IsPrefix(ltweets, ltweets')
        /\ lend' # "cap" =>
            \A j \in (Len(ltweets) + 1)..lseen' :
                LET d == IF lpc = "mirror"
                         THEN _extract_nitter_tweet_data(PostNode("nitter", lfeed'[j], j))
                         ELSE _extract_tweet_data(PostNode("x.com", lfeed'[j], j))
                IN d # None => d[1] \in Appended]_vars

\* a node whose extraction gives nothing came before one whose record was
\* collected
C23_Witness ==
    \E i \in 1..Len(lfeed), j \in 1..Len(lfeed) :
        /\ i < j /\ lfeed[i] = "stale" /\ lfeed[j] = "good"
        /\ \E k \in 1..Len(ltweets) : ltweets[k].text = PostText(j)

\* C24: the origin loop ends without an exception only by the cap, by the
\* ceiling of 30 cycles, or by a cycle whose two readings both equalled
\* last_height; after a cycle whose second reading differed the loop goes on.
C24_LoopEnds ==
    /\ (lpc = "ended" /\ lend = "cap") => (lcap # 0 /\ Len(ltweets) >= lcap)
    /\ (lpc = "ended" /\ lend = "ceiling") => lscroll = max_scrolls
    /\ (lpc = "ended" /\ lend = "converged") => lreadings = "still"
    /\ lpc = "ended" =>
          lend \in {"cap", "ceiling", "converged", "error", "accepted", "fallback"}
    /\ lreadings = "late" => (lpc = "loop" \/ lend = "ceiling")

\* the first reading was unchanged, the second differed, and the loop
\* started another cycle
C24_Witness == lpc = "loop" /\ lreadings = "late" /\ lscroll >= 1

\* the records of tw are those of nodes that follow one another in the DOM
InDomOrder(tw) ==
    \A i \in 1..Len(tw), j \in 1..Len(tw) :
        i < j => \E a \in 1..Len(lfeed), b \in 1..Len(lfeed) :
                    a < b /\ tw[i].text = PostText(a) /\ tw[j].text = PostText(b)

\* C32: the list of collected records only grows at its end, and its
\* records come in the order of their nodes in the DOM.
C32_AppendOnlyInOrder ==
    /\ [](InDomOrder(ltweets))
    /\ [][lend' # "error" => IsPrefix(ltweets, ltweets')]_vars

\* two cycles collected the records of the first two nodes, in that order
C32_Witness ==
    /\ lpc = "loop" /\ lscroll >= 2 /\ Len(ltweets) = 2
    /\ ltweets[1].text = PostText(1) /\ ltweets[2].text = PostText(2)

(***************************************************************************)
(* The JavaScript-disabled check of the origin attempt, statement by       *)
(* statement: the page source is dumped, the browser is quit, one with a   *)
(* mobile user agent is launched and set up, the profile is loaded again   *)
(* and the marker is looked for once more.  Every exception but that of    *)
(* quit() reaches the handler of the origin attempt, which returns []      *)
(* ("handled"); a marker that is still there returns [] ("returned").      *)
(***************************************************************************)
JsInit ==
    /\ jpc = "check"
    /\ juser \in Targets
    /\ jprofile \in BOOLEAN
    /\ jpage \in {"marker", "clear"}
    /\ jdump = "none" /\ jlive = 1 /\ jagent = "desktop" /\ jrestarts = 0
    /\ jret = "none"
    /\ RunIdle
    /\ AuthIdle
    /\ SharedIdle
    /\ WrapperIdle
    /\ LoopIdle
    /\ CaptureIdle
    /\ JobsIdle
    /\ xpc = "off" /\ xnode = BareNode /\ xrec = None

\* except Exception as e: log, return []
JsRaise ==
    /\ jpc' = "handled"
    /\ jret' = "empty"

\* if "JavaScript is not available" in self.driver.page_source
JMarker ==
    /\ jpc = "check"
    /\ \E raises \in BOOLEAN :
        IF raises THEN JsRaise
        ELSE /\ jpc' = IF jpage = "marker" THEN "dump" ELSE "wait"
             /\ UNCHANGED jret
    /\ UNCHANGED <<juser, jprofile, jpage, jdump, jlive, jagent, jrestarts, offJs>>

\* with open(f"{self.username}_js_disabled.html", "w") as f: f.write(...)
JDump ==
    /\ jpc = "dump"
    /\ \E step \in {"ok", "open", "write"} :
        /\ jdump' = CASE step = "ok" -> "written"
                      [] step = "write" -> "partial"
                      [] OTHER -> jdump
        /\ IF step = "ok" THEN jpc' = "quit" /\ UNCHANGED jret ELSE JsRaise
    /\ UNCHANGED <<juser, jprofile, jpage, jlive, jagent, jrestarts, offJs>>

\* try: self.driver.quit() / except Exception: pass -- a quit that raises
\* may or may not have ended the browser
JQuit ==
    /\ jpc = "quit"
    /\ \E ended \in BOOLEAN : jlive' = IF ended THEN jlive - 1 ELSE jlive
    /\ jpc' = "launch"
    /\ UNCHANGED <<juser, jprofile, jpage, jdump, jagent, jrestarts, jret, offJs>>

\* self.driver = webdriver.Chrome(options=chrome_options)
JLaunch ==
    /\ jpc = "launch"
    /\ jrestarts' = jrestarts + 1
    /\ \E raises \in BOOLEAN :
        IF raises THEN JsRaise /\ UNCHANGED <<jlive, jagent>>
        ELSE /\ jlive' = jlive + 1
             /\ jagent' = "mobile"
             /\ jpc' = "setup"
             /\ UNCHANGED jret
    /\ UNCHANGED <<juser, jprofile, jpage, jdump, offJs>>

\* execute_cdp_cmd, execute_script, get(self.profile_url), save_screenshot
JSetup ==
    /\ jpc = "setup"
    /\ \E raises \in BOOLEAN, page \in {"marker", "clear"} :
        IF raises THEN JsRaise /\ UNCHANGED jpage
        ELSE jpage' = page /\ jpc' = "recheck" /\ UNCHANGED jret
    /\ UNCHANGED <<juser, jprofile, jdump, jlive, jagent, jrestarts, offJs>>

\* if "JavaScript is not available" in self.driver.page_source: return []
JRecheck ==
    /\ jpc = "recheck"
    /\ \E raises \in BOOLEAN :
        IF raises THEN JsRaise
        ELSE IF jpage = "marker" THEN jpc' = "returned" /\ jret' = "empty"
        ELSE jpc' = "wait" /\ UNCHANGED jret
    /\ UNCHANGED <<juser, jprofile, jpage, jdump, jlive, jagent, jrestarts, offJs>>

JsNext == JMarker \/ JDump \/ JQuit \/ JLaunch \/ JSetup \/ JRecheck

SpecJs == JsInit /\ [][JsNext]_vars

\* C28: a page with the JavaScript-disabled marker is followed by exactly
\* one launch with the mobile user agent; while the marker stays, or when
\* the restart fails, the attempt returns empty; there is no second launch.
C28_RetryOnce ==
    /\ jrestarts <= 1
    /\ (jdump # "none" /\ jpc \in {"wait", "returned", "handled"}) => jrestarts = 1
    /\ (jpc = "wait" /\ jrestarts = 1) => (jpage = "clear" /\ jagent = "mobile")
    /\ jpc \in {"returned", "handled"} => jret = "empty"

\* the marker was still shown after the restart and the attempt gave up
C28_Witness ==
    /\ jpc = "returned" /\ jrestarts = 1 /\ jagent = "mobile"
    /\ jpage = "marker" /\ jret = "empty"

(***************************************************************************)
(* The diagnostic captures: the mirror screenshot, the screenshot of the   *)
(* login page and the dump of the JavaScript-disabled page.  Each is       *)
(* followed as it went and as it would have gone had the capture           *)
(* succeeded, on the same pages.  save_screenshot returns False when the   *)
(* file cannot be written and raises when the browser gives no image; the  *)
(* dump raises when the file cannot be opened or written.                  *)
(***************************************************************************)
CaptureModes == {"ok", "not_written", "raises"}

\* the mirror attempt from the screenshot on: [backend, tweets], the origin
\* being tried when the mirror's records are not accepted
MirrorOutcome(failed, elems, cap) ==
    LET r == MirrorLoop(elems, <<>>, cap)
    IN IF MirrorAccepted(failed, r.tweets)
       THEN <<"nitter", r.tweets>>
       ELSE <<"x.com">>

\* an exception of the capture is an exception of the try block around it
AfterCapture(mode, failed) == IF mode = "raises" THEN "raises" ELSE failed

CaptureInit ==
    /\ dpc = "ready" /\ dsite = "none" /\ dmode = "ok" /\ dinput = <<>>
    /\ dout = <<>> /\ dref = <<>>
    /\ RunIdle
    /\ AuthIdle
    /\ SharedIdle
    /\ WrapperIdle
    /\ LoopIdle
    /\ JsIdle
    /\ JobsIdle
    /\ xpc = "off" /\ xnode = BareNode /\ xrec = None

\* self.driver.save_screenshot(f"{self.username}_nitter.png") in the try
\* block of the mirror attempt
CaptureMirror ==
    /\ dpc = "ready"
    /\ \E mode \in CaptureModes, failed \in {"no", "redirected", "timeout"},
          cap \in 0..MaxCap, n \in 0..MaxNodes :
        \E f \in LoopExtensions(<<>>, n) :
            /\ dmode' = mode
            /\ dinput' = <<failed, cap, f>>
            /\ dout' = MirrorOutcome(AfterCapture(mode, failed),
                                     Elements("nitter", f, n), cap)
            /\ dref' = MirrorOutcome(failed, Elements("nitter", f, n), cap)
    /\ dsite' = "mirror"
    /\ dpc' = "done"
    /\ UNCHANGED offCapture

\* self.driver.save_screenshot("login_page.png") in the try block of login
CaptureLogin ==
    /\ dpc = "ready"
    /\ \E mode \in CaptureModes, e \in LoginEnvs :
        /\ ~e.raises
        /\ dmode' = mode
        /\ dinput' = <<e>>
        /\ dout' = <<login(TRUE, [e EXCEPT !.raises = (mode = "raises")])>>
        /\ dref' = <<login(TRUE, e)>>
    /\ dsite' = "login"
    /\ dpc' = "done"
    /\ UNCHANGED offCapture

\* the dump of page_source to {username}_js_disabled.html in the try block
\* of the origin attempt
CaptureDump ==
    /\ dpc = "ready"
    /\ \E mode \in {"ok", "raises"},
          step \in {"launch_raises", "setup_raises", "still", "ok"} :
        /\ dmode' = mode
        /\ dinput' = <<step>>
        /\ dout' = <<JsReason(IF mode = "raises" THEN "dump_raises" ELSE step)>>
        /\ dref' = <<JsReason(step)>>
    /\ dsite' = "dump"
    /\ dpc' = "done"
    /\ UNCHANGED offCapture

CaptureNext == CaptureMirror \/ CaptureLogin \/ CaptureDump

SpecCapture == CaptureInit /\ [][CaptureNext]_vars

\* C29: a capture that fails leaves the outcome what it is when the capture
\* succeeds: the same backend and tweets, the same value of login(), the
\* same way out of the JavaScript-disabled check.
C29_CaptureIsSideEffect == dpc = "done" => dout = dref

\* the login screenshot could not be written, save_screenshot returned
\* False, and login() returned True all the same
C29_Witness ==
    /\ dpc = "done" /\ dsite = "login" /\ dmode = "not_written"
    /\ dref = <<TRUE>> /\ dout = <<TRUE>>

(***************************************************************************)
(* The job queue of tweedhat-web, for one job: the new_job route saves the *)
(* job and enqueues scrape_tweets_task; process_pending_jobs enqueues the  *)
(* task for a job it reads as pending and then saves the job as            *)
(* processing; the worker runs scrape_tweets_task and generate_audio_task, *)
(* each on the Job object it loaded with Job.get_by_id, and every save     *)
(* rewrites the whole job file.  A step is one access to the job file or   *)
(* to the queue, together with the statements that follow it up to the     *)
(* next access by another statement of the same function.                  *)
(***************************************************************************)

\* the most tweets the file of a scrape holds
MaxTweets == 2

\* the engine tasks.py is written for: a class whose constructor takes
\* headless, debug, email and password and which has scrape_user(username,
\* max_tweets, output_file); scrape.py has no such class
ScrapeUserEngine ==
    [name |-> "scrape_user",
     params |-> {"headless", "debug", "email", "password"},
     required |-> {},
     methods |-> {"scrape_user"}]

Engines == {TweetScraper, ScrapeUserEngine}

\* TwitterScraper(headless=True, debug=True, email=..., password=...)
TaskKwargs == {"headless", "debug", "email", "password"}

\* a call with keyword arguments only binds: every keyword names a
\* parameter and every parameter without a default is given
Accepts_Any(e, kwargs) == TRUE
Accepts(e, kwargs) == kwargs \subseteq e.params /\ e.required \subseteq kwargs

\* Job(user_id=..., target_twitter_handle=..., ...): status "pending",
\* tweet_file None, progress 0
NewJob == [status |-> "pending", progress |-> 0, tweet_file |-> "none"]

\* the generate_audio_task a scrape_tweets_task enqueues
AudioOf(t) == IF t = "s_route" THEN "a_route" ELSE "a_script"
ScrapeOf(a) == IF a = "a_route" THEN "s_route" ELSE "s_script"

\* output_path of an execution of scrape_tweets_task
OutputPath(t) == t

\* Job.update_status without a progress argument: the progress of the status
DefaultProgress(status, progress) ==
    IF status = "pending" THEN 0
    ELSE IF status = "scraping" THEN 10
    ELSE IF status = "scraped" THEN 20
    ELSE IF status = "generating_audio" THEN 30
    ELSE IF status = "completed" THEN 100
    ELSE progress

\* Job.update_status(status, progress=...): the Job object as it is saved;
\* progress is <<>> for None and <<p>> otherwise
update_status(job, status, progress) ==
    [job EXCEPT !.status = status,
                !.progress = IF progress # <<>> THEN progress[1]
                             ELSE DefaultProgress(status, job.progress)]

\* int(base + (current / total) * (max_progress - base)) less base; the
\* floating-point quotient and the integer one agree for every total up to
\* 49, and both stay within 0..max_progress - base beyond
StageProgress_NoBase(current, total, base, max_progress) ==
    (current * max_progress) \div total
StageProgress(current, total, base, max_progress) ==
    (current * (max_progress - base)) \div total

\* Job.update_progress(current, total, stage)
update_progress(job, current, total, stage) ==
    LET base == IF stage = "processing" THEN 30 ELSE 0
        max_progress == IF stage = "scraping" THEN 20 ELSE 100
        progress == IF total > 0
                    THEN base + StageProgress(current, total, base, max_progress)
                    ELSE base
    IN update_status(job, job.status, <<progress>>)

\* the try block of scrape_tweets_task up to "if not result": the error that
\* ends it, or "ok"
scrape_try(e, user, res) ==
    IF ~user THEN "User not found"
    ELSE IF ~Accepts(e, TaskKwargs) THEN "TypeError"
    ELSE IF "scrape_user" \notin e.methods THEN "AttributeError"
    ELSE IF res = "raises" THEN "raised"
    ELSE IF res = "falsy" THEN "Failed to scrape tweets"
    ELSE "ok"

\* the except clause of scrape_tweets_task, and its two returns after an
\* update to "failed"
scrape_except_Silent(job) == job
scrape_except(job) == update_status(job, "failed", <<>>)

\* the try block of generate_audio_task up to the loop: the error that ends
\* it, or "ok"
audio_try(job, env) ==
    IF env = "no_user" THEN "User not found"
    ELSE IF env = "no_key" THEN "ElevenLabs API key not found"
    ELSE IF job.tweet_file = "none" THEN "TypeError"
    ELSE IF env = "unreadable" THEN "Failed to load tweets"
    ELSE IF env = "empty" THEN "No tweets found"
    ELSE "ok"

JobsInit ==
    /\ engine \in Engines
    /\ disk = <<>> /\ route = "form" /\ pending = "idle" /\ pjob = <<>>
    /\ task = [t \in Tasks |-> NoTask]
    /\ RunIdle
    /\ AuthIdle
    /\ SharedIdle
    /\ WrapperIdle
    /\ LoopIdle
    /\ JsIdle
    /\ CaptureIdle
    /\ xpc = "off" /\ xnode = BareNode /\ xrec = None

\* new_job: job = Job(...); job.save()
RouteSave ==
    /\ route = "form"
    /\ disk' = <<NewJob>>
    /\ route' = "saved"
    /\ UNCHANGED <<engine, pending, pjob, task, offJobs>>

\* new_job: scrape_tweets_task.delay(job.id)
RouteEnqueue ==
    /\ route = "saved"
    /\ task' = [task EXCEPT !["s_route"].pc = "queued"]
    /\ route' = "done"
    /\ UNCHANGED <<engine, disk, pending, pjob, offJobs>>

\* process_pending_jobs: the listing of the jobs directory and the read of
\* the job file; only a job read as pending is taken up
PendingRead ==
    /\ pending = "idle"
    /\ pending' = IF disk # <<>> /\ disk[1].status = "pending" THEN "found" ELSE "done"
    /\ UNCHANGED <<engine, disk, route, pjob, task, offJobs>>

\* process_pending_jobs: scrape_tweets_task.delay(job_id)
PendingEnqueue ==
    /\ pending = "found"
    /\ task' = [task EXCEPT !["s_script"].pc = "queued"]
    /\ pending' = "enqueued"
    /\ UNCHANGED <<engine, disk, route, pjob, offJobs>>

\* process_pending_jobs: job = Job.get_by_id(job_id); job.status = 'processing'
PendingLoad ==
    /\ pending = "enqueued"
    /\ pjob' = <<[disk[1] EXCEPT !.status = "processing"]>>
    /\ pending' = "loaded"
    /\ UNCHANGED <<engine, disk, route, task, offJobs>>

\* process_pending_jobs: job.save()
PendingSave ==
    /\ pending = "loaded"
    /\ disk' = pjob
    /\ pending' = "done"
    /\ UNCHANGED <<engine, route, pjob, task, offJobs>>

\* a worker takes the message: job = Job.get_by_id(job_id)
TaskStart(t) ==
    /\ task[t].pc = "queued"
    /\ task' = [task EXCEPT ![t].pc = "found", ![t].job = disk]
    /\ UNCHANGED <<engine, disk, route, pending, pjob, offJobs>>

\* scrape_tweets_task: job.update_status("scraping", ...) before the try
ScrapeMark(t) ==
    /\ task[t].pc = "found"
    /\ LET job == update_status(task[t].job[1], "scraping", <<>>)
       IN /\ task' = [task EXCEPT ![t].pc = "marked", ![t].job = <<job>>]
          /\ disk' = <<job>>
    /\ UNCHANGED <<engine, route, pending, pjob, offJobs>>

\* scrape_tweets_task: the user lookup, the construction of the scraper and
\* scrape_user, with the updates to "scraping" on the way; an error ends the
\* task with an update to "failed"
ScrapeRun(t) ==
    /\ task[t].pc = "marked"
    /\ \E user \in BOOLEAN, res \in {"truthy", "falsy", "raises"} :
        LET why == scrape_try(engine, user, res)
            job == IF why = "ok" THEN update_status(task[t].job[1], "scraping", <<>>)
                   ELSE scrape_except(task[t].job[1])
        IN /\ task' = [task EXCEPT ![t].pc = IF why = "ok" THEN "collected" ELSE "ended",
                                   ![t].job = <<job>>,
                                   ![t].error = IF why = "ok" THEN "none" ELSE why]
           /\ disk' = <<job>>
    /\ UNCHANGED <<engine, route, pending, pjob, offJobs>>

\* scrape_tweets_task: job.update_status("scraped", ...), saved, and then
\* job.tweet_file = output_path on the Job object
ScrapeScraped(t) ==
    /\ task[t].pc = "collected"
    /\ LET job == update_status(task[t].job[1], "scraped", <<>>)
       IN /\ disk' = <<job>>
          /\ task' = [task EXCEPT ![t].pc = "scraped",
                                  ![t].job = <<[job EXCEPT !.tweet_file = OutputPath(t)]>>]
    /\ UNCHANGED <<engine, route, pending, pjob, offJobs>>

\* scrape_tweets_task: generate_audio_task.delay(job_id), the last statement
\* of the try block; if it raises the except clause saves "failed"
ScrapeEnqueue(t) ==
    /\ task[t].pc = "scraped"
    /\ \/ /\ task' = [task EXCEPT ![t].pc = "ended", ![AudioOf(t)].pc = "queued"]
          /\ UNCHANGED disk
       \/ LET job == scrape_except(task[t].job[1])
          IN /\ task' = [task EXCEPT ![t].pc = "ended", ![t].job = <<job>>,
                                     ![t].error = "delay"]
             /\ disk' = <<job>>
    /\ UNCHANGED <<engine, route, pending, pjob, offJobs>>

\* generate_audio_task: job.update_status("generating_audio", ...)
AudioMark(a) ==
    /\ task[a].pc = "found"
    /\ LET job == update_status(task[a].job[1], "generating_audio", <<>>)
       IN /\ task' = [task EXCEPT ![a].pc = "marked", ![a].job = <<job>>]
          /\ disk' = <<job>>
    /\ UNCHANGED <<engine, route, pending, pjob, offJobs>>

\* generate_audio_task: the user lookup, the API key, TweetReader(json_file=
\* job.tweet_file, ...), load_tweets and the update to "processing"; an
\* error ends the task with an update to "failed"
AudioLoad(a) ==
    /\ task[a].pc = "marked"
    /\ \E env \in {"ok", "no_user", "no_key", "unreadable", "empty"}, n \in 1..MaxTweets :
        LET why == audio_try(task[a].job[1], env)
            job == IF why = "ok" THEN update_status(task[a].job[1], "processing", <<>>)
                   ELSE update_status(task[a].job[1], "failed", <<>>)
        IN /\ task' = [task EXCEPT ![a].pc = IF why = "ok" THEN "processing" ELSE "ended",
                                   ![a].job = <<job>>,
                                   ![a].error = IF why = "ok" THEN "none" ELSE why,
                                   ![a].n = IF why = "ok" THEN n ELSE 0]
           /\ disk' = <<job>>
    /\ UNCHANGED <<engine, route, pending, pjob, offJobs>>

\* generate_audio_task: one pass of the loop over the tweets:
\* job.update_progress(i+1, len(tweets), stage="processing") and the updates
\* with job.status that follow it
AudioTweet(a) ==
    /\ task[a].pc = "processing" /\ task[a].i < task[a].n
    /\ LET job == update_progress(task[a].job[1], task[a].i + 1, task[a].n, "processing")
       IN /\ task' = [task EXCEPT ![a].i = @ + 1, ![a].job = <<job>>]
          /\ disk' = <<job>>
    /\ UNCHANGED <<engine, route, pending, pjob, offJobs>>

\* generate_audio_task: job.update_status("completed", ...) after the loop
AudioComplete(a) ==
    /\ task[a].pc = "processing" /\ task[a].i = task[a].n
    /\ LET job == update_status(task[a].job[1], "completed", <<>>)
       IN /\ task' = [task EXCEPT ![a].pc = "ended", ![a].job = <<job>>]
          /\ disk' = <<job>>
    /\ UNCHANGED <<engine, route, pending, pjob, offJobs>>

JobsNext ==
    \/ RouteSave
    \/ RouteEnqueue
    \/ PendingRead
    \/ PendingEnqueue
    \/ PendingLoad
    \/ PendingSave
    \/ \E t \in Tasks : TaskStart(t)
    \/ \E t \in ScrapeTasks : ScrapeMark(t)
    \/ \E t \in ScrapeTasks : ScrapeRun(t)
    \/ \E t \in ScrapeTasks : ScrapeScraped(t)
    \/ \E t \in ScrapeTasks : ScrapeEnqueue(t)
    \/ \E a \in AudioTasks : AudioMark(a)
    \/ \E a \in AudioTasks : AudioLoad(a)
    \/ \E a \in AudioTasks : AudioTweet(a)
    \/ \E a \in AudioTasks : AudioComplete(a)

SpecJobs == JobsInit /\ [][JobsNext]_vars

\* C34: the Job object a generate_audio_task loaded has tweet_file equal to
\* the output path of the scrape_tweets_task that enqueued it.
C34_TweetFilePersisted ==
    \A a \in AudioTasks :
        task[a].job # <<>> => task[a].job[1].tweet_file = OutputPath(ScrapeOf(a))

\* the scrape task ended with "scraped" and its audio task loaded a job
\* without a tweet file
C34_Witness ==
    /\ task["s_route"].pc = "ended" /\ task["s_route"].job[1].status = "scraped"
    /\ task["s_route"].job[1].tweet_file = OutputPath("s_route")
    /\ task["a_route"].pc = "found" /\ task["a_route"].job[1].tweet_file = "none"

\* nothing is running and nothing is queued
Quiescent ==
    /\ route = "done" /\ pending = "done"
    /\ \A t \in Tasks : task[t].pc \in {"none", "ended"}

\* C35: an execution of scrape_tweets_task that found its job has, when it
\* ends, last saved the status "scraped" or "failed"; it enqueued
\* generate_audio_task exactly when that status is "scraped"; and once
\* nothing runs any more the job file does not say "scraping".
C35_ScrapedOrFailed ==
    /\ \A t \in ScrapeTasks :
        (task[t].pc = "ended" /\ task[t].job # <<>>) =>
            /\ task[t].job[1].status \in {"scraped", "failed"}
            /\ task[AudioOf(t)].pc # "none" <=> task[t].job[1].status = "scraped"
    /\ Quiescent => disk[1].status # "scraping"

\* one execution ended after "scraped" with its audio task queued, the
\* other ended with "failed" and enqueued nothing
C35_Witness ==
    /\ task["s_route"].pc = "ended" /\ task["s_route"].job[1].status = "scraped"
    /\ task["a_route"].pc = "queued"
    /\ task["s_script"].pc = "ended" /\ task["s_script"].job[1].status = "failed"
    /\ task["a_script"].pc = "none"

\* C36: with the class of scrape.py bound to TwitterScraper, the call
\* TwitterScraper(headless, debug, email, password) and the method
\* scrape_user of an execution that found its user are accepted by the
\* class, so that the job can go on to "scraped".
C36_EngineAccepts ==
    \A t \in ScrapeTasks :
        (/\ engine = TweetScraper
         /\ task[t].pc \in {"collected", "scraped", "ended"}
         /\ task[t].error # "User not found") =>
            (Accepts(engine, TaskKwargs) /\ "scrape_user" \in engine.methods)

\* the execution found its user, and the constructor of scrape.py's class
\* rejected the keywords: the job is "failed"
C36_Witness ==
    /\ engine = TweetScraper
    /\ task["s_route"].pc = "ended" /\ task["s_route"].error = "TypeError"
    /\ disk[1].status = "failed"

\* C37: scrape_tweets_task is enqueued at most once for the job.
C37_EnqueuedOnce ==
    \A t \in ScrapeTasks, u \in ScrapeTasks :
        (task[t].pc # "none" /\ task[u].pc # "none") => t = u

\* the job is still pending on disk and two messages for it are queued
C37_Witness ==
    /\ task["s_route"].pc = "queued" /\ task["s_script"].pc = "queued"
    /\ disk[1].status = "pending"

\* C38: once the job file says "failed" or "completed", no later save
\* changes the status.
C38_TerminalStays ==
    [][(disk # <<>> /\ disk[1].status \in {"failed", "completed"}) =>
            disk'[1].status = disk[1].status]_vars

\* the route's task ended with "failed", the script's task has not started,
\* and the job file holds the "processing" the script saved
C38_Witness ==
    /\ task["s_route"].pc = "ended" /\ task["s_route"].job[1].status = "failed"
    /\ task["s_script"].pc = "queued"
    /\ pending = "done" /\ disk = pjob /\ disk[1].status = "processing"

\* the progress of a Job object is a percentage, and 100 when completed
Percentage(job) ==
    /\ job.progress <= 100
    /\ job.status = "completed" => job.progress = 100

\* C39: the progress of the job, in the job file and in every Job object, is
\* between 0 and 100, for every update_progress(current, total, stage) with
\* 0 <= current <= total as well, and it is 100 when the status is
\* "completed".
C39_ProgressRange ==
    /\ \A stage \in {"scraping", "processing", "other"}, total \in 0..MaxTweets :
        \A current \in 0..total :
            Percentage(update_progress(NewJob, current, total, stage))
    /\ disk # <<>> => Percentage(disk[1])
    /\ pjob # <<>> => Percentage(pjob[1])
    /\ \A t \in Tasks : task[t].job # <<>> => Percentage(task[t].job[1])

\* an audio task went through all its tweets and saved "completed"
C39_Witness ==
    \E a \in AudioTasks :
        /\ task[a].pc = "ended" /\ task[a].n = 2 /\ task[a].i = 2
        /\ task[a].job[1].status = "completed" /\ task[a].job[1].progress = 100
        /\ disk = task[a].job

====
